---------------------------- MODULE Spec2Model ----------------------------
(***************************************************************************)
(* A model of the record store and audit log of the AdminMock back office  *)
(* (src/app.py): six file-backed collections, three indices keyed by the   *)
(* normalised account identifier ("GR"), the payments view derived from    *)
(* the orders, and the command handlers with their activity logging.       *)
(*                                                                         *)
(* Text that the code inspects character by character (account ids, the    *)
(* personal details, dates) is a sequence of one-character strings; text   *)
(* that the code only stores and compares (statuses, categories, recipe    *)
(* names) is a TLA+ string.                                                *)
(***************************************************************************)
EXTENDS Integers, Sequences, FiniteSets, TLC

(***************************************************************************)
(* Python's str methods, on sequences of characters.                       *)
(***************************************************************************)
Lo == <<"a","b","c","d","e","f","g","h","i","j","k","l","m",
        "n","o","p","q","r","s","t","u","v","w","x","y","z">>
Up == <<"A","B","C","D","E","F","G","H","I","J","K","L","M",
        "N","O","P","Q","R","S","T","U","V","W","X","Y","Z">>
Digits == {"0","1","2","3","4","5","6","7","8","9"}

\* the letters' case tables, and the characters' code points
UpperTable == [c \in {Lo[i] : i \in 1..26} |-> Up[CHOOSE i \in 1..26 : Lo[i] = c]]
LowerTable == [c \in {Up[i] : i \in 1..26} |-> Lo[CHOOSE i \in 1..26 : Up[i] = c]]

IsLower(c) == c \in DOMAIN UpperTable
IsUpper(c) == c \in DOMAIN LowerTable
IsAlpha(c) == IsLower(c) \/ IsUpper(c)
IsDigit(c) == c \in Digits
IsSpace(c) == c = " "

upper_c(c) == IF IsLower(c) THEN UpperTable[c] ELSE c
lower_c(c) == IF IsUpper(c) THEN LowerTable[c] ELSE c

\* Two characters outside ASCII, named by their code points: U+0149 (the
\* letter n preceded by an apostrophe), which has no upper-case character of
\* its own, so that str.upper() and the title-casing of str.capitalize() write
\* it as U+02BC (the modifier-letter apostrophe) followed by "N"; U+02BC has
\* no case.
NApostrophe == "U+0149"
ModifierApostrophe == "U+02BC"

upper_of(c) == IF c = NApostrophe THEN <<ModifierApostrophe, "N">> ELSE <<upper_c(c)>>

RECURSIVE py_upper(_)
py_upper(s) == IF s = <<>> THEN <<>> ELSE upper_of(Head(s)) \o py_upper(Tail(s))

py_lower(s) == [i \in 1..Len(s) |-> lower_c(s[i])]

RECURSIVE lstrip(_)
lstrip(s) == IF s # <<>> /\ IsSpace(Head(s)) THEN lstrip(Tail(s)) ELSE s

RECURSIVE rstrip(_)
rstrip(s) ==
    IF s # <<>> /\ IsSpace(s[Len(s)]) THEN rstrip(SubSeq(s, 1, Len(s) - 1)) ELSE s

py_strip(s) == rstrip(lstrip(s))

\* s.replace(' ', '')
remove_spaces(s) == SelectSeq(s, LAMBDA c : ~IsSpace(c))

\* s.capitalize(): first character title-cased, the rest lower-cased
py_capitalize(s) ==
    IF s = <<>> THEN s ELSE upper_of(Head(s)) \o py_lower(Tail(s))

\* s[-3:]
last3(s) == IF Len(s) >= 3 THEN SubSeq(s, Len(s) - 2, Len(s)) ELSE s

(***************************************************************************)
(* Normalisers.                                                            *)
(***************************************************************************)
GR(s) == py_upper(py_strip(s))

norm(s) == remove_spaces(py_lower(py_strip(s)))

(***************************************************************************)
(* Request bodies are records that hold only the keys the caller sent.     *)
(* JSON numbers, strings and null in a field that the code coerces are     *)
(* tagged, so that int() and float() see the type they were given.         *)
(***************************************************************************)
Has(data, k) == k \in DOMAIN data

\* a lookup that answers "active" for a request without a status
get_or_active(data, k, default) ==
    IF k \in DOMAIN data THEN data[k] ELSE IF k = "status" THEN "active" ELSE default

\* data.get(k, default)
Get(data, k, default) == IF Has(data, k) THEN data[k] ELSE default

\* a request without one of its keys
Without(data, k) == [x \in DOMAIN data \ {k} |-> data[x]]

IntV(n) == [int |-> n]
StrV(s) == [str |-> s]
NullV == [null |-> TRUE]
BoolV(b) == [bool |-> b]

\* isinstance(x, int): a JSON integer, or true or false, bool being a subclass
\* of int
isinstance_int(x) == Has(x, "int") \/ Has(x, "bool")

\* the number Python computes and compares with: True is 1 and False is 0
int_value(x) == IF Has(x, "int") THEN x.int ELSE IF x.bool THEN 1 ELSE 0

DigitTable == [c \in Digits |-> CHOOSE d \in 0..9 : ToString(d) = c]

RECURSIVE digits_value(_)
digits_value(s) ==
    IF s = <<>> THEN 0
    ELSE 10 * digits_value(SubSeq(s, 1, Len(s) - 1)) + DigitTable[s[Len(s)]]

AllDigits(s) == s # <<>> /\ \A i \in 1..Len(s) : IsDigit(s[i])

\* int(x): a number as it is, a string parsed after stripping (with an optional
\* sign), ValueError for any other string, TypeError for null.
py_int(x) ==
    IF Has(x, "int") THEN [ok |-> TRUE, v |-> x.int]
    ELSE IF Has(x, "null") THEN [ok |-> FALSE, exc |-> "TypeError"]
    ELSE LET s == py_strip(x.str) IN
         IF AllDigits(s) THEN [ok |-> TRUE, v |-> digits_value(s)]
         ELSE IF s # <<>> /\ Head(s) = "-" /\ AllDigits(Tail(s))
              THEN [ok |-> TRUE, v |-> 0 - digits_value(Tail(s))]
         ELSE IF s # <<>> /\ Head(s) = "+" /\ AllDigits(Tail(s))
              THEN [ok |-> TRUE, v |-> digits_value(Tail(s))]
         ELSE [ok |-> FALSE, exc |-> "ValueError"]


(***************************************************************************)
(* Bounds of the model.                                                    *)
(***************************************************************************)
\* the clock runs from StartTick for at most MaxTime ticks
MaxTime == 1
\* ticks per calendar day: tick 0 of a day is midnight, the others are later
TicksPerDay == 2
\* the commands that append an activity-event stop when the log holds this
\* many events besides those of the seed
MaxActivity == 1
\* the commands that append an order stop at this many orders
MaxOrders == 3
\* the commands that append a complaint stop at this many complaints
MaxComplaints == 2
\* how many values the random part of a generated identifier can take
NumTokens == 2

Tokens == 1..NumTokens

(***************************************************************************)
(* Time.  The clock is a tick count; tick d * TicksPerDay is midnight of   *)
(* day d of the modelled month.  The code prints the clock with the fixed  *)
(* width format %Y-%m-%dT%H:%M:%SZ and compares the texts: texts of that   *)
(* format order as the instants do, so a timestamp is kept as its tick.    *)
(***************************************************************************)
\* the process starts at midnight of day 1
StartTick == TicksPerDay
DayOf(t) == t \div TicksPerDay

(***************************************************************************)
(* State.                                                                  *)
(***************************************************************************)
VARIABLES
    customers,            \* the six collections, as loaded and mutated in memory
    orders,
    messages,
    complaints,
    subscriptions,
    activity,
    customers_by_gr,      \* index: normalised GR -> position in customers
    messages_by_gr,       \* index: normalised GR -> position in messages
    subscriptions_by_gr,  \* index: normalised GR -> position in subscriptions
    file_customers,       \* what the data files decode to
    file_orders,
    file_complaints,
    file_subscriptions,
    file_activity,
    now,                  \* the clock
    last                  \* the last request and the response it got

collections == <<customers, orders, messages, complaints, subscriptions, activity>>
indices == <<customers_by_gr, messages_by_gr, subscriptions_by_gr>>
files == <<file_customers, file_orders, file_complaints, file_subscriptions,
           file_activity>>
vars == <<collections, indices, files, now, last>>

(***************************************************************************)
(* Seed data: what the data files hold when the process starts.            *)
(***************************************************************************)
GR001 == <<"G","R","0","0","1">>
GR002 == <<"G","R","0","0","2">>
GR999 == <<"G","R","9","9","9">>
gr001_padded == <<" ","g","r","0","0","1"," ">>
gr002_lower == <<"g","r","0","0","2">>

T1200Z == <<"T","1","2",":","0","0",":","0","0","Z">>
Month == <<"2","0","2","6","-","1","1","-">>

BeefTacos == [id |-> "beef-tacos", name |-> "Beef Tacos"]
SalmonTeriyaki == [id |-> "salmon-teriyaki", name |-> "Salmon Teriyaki"]
VegetarianCurry == [id |-> "vegetarian-curry", name |-> "Vegetarian Curry"]
ChefSpecial == [id |-> "chef-special", name |-> "Chef Special"]

OrderId(day, tok) == [day |-> day, tok |-> tok]
ComplaintId(day, tok) == [day |-> day, tok |-> tok]

SeedCustomers == <<
    [gr |-> GR001, first_name |-> <<"A","l">>, last_name |-> <<"W","u">>,
     email |-> <<"a","@","b",".","c","o">>,
     phone |-> <<"0","7","1","2","3"," ","4","5","6","7","8","9">>,
     postcode |-> <<"S","W","1","A"," ","1","A","A">>,
     address |-> <<"1"," ","H","i","g","h"," ","S","t">>,
     city |-> <<"L","e","e","d","s">>],
    [gr |-> gr002_lower, first_name |-> <<"B","o">>, last_name |-> <<"L","e","e">>,
     email |-> <<"b","@","c",".","u","k">>,
     phone |-> <<"0","7","0","0","0"," ","0","0","0","0","0","2">>,
     postcode |-> <<"B","1"," ","1","B","B">>,
     address |-> <<"2"," ","L","o","w"," ","R","d">>,
     city |-> <<"Y","o","r","k">>] >>

SeedOrders == <<
    [gr |-> GR001, order_id |-> OrderId(0, 1),
     order_date |-> <<"2","0","2","6","-","1","0","-","2","0">> \o T1200Z,
     status |-> "committed", box_size |-> IntV(2),
     recipes |-> <<BeefTacos, SalmonTeriyaki>>, payment |-> 3296,
     courier_details |-> "DPD"],
    [gr |-> gr002_lower, order_id |-> OrderId(0, 2),
     order_date |-> Month \o <<"0","3">> \o T1200Z,
     status |-> "pending", box_size |-> IntV(1),
     recipes |-> <<BeefTacos, VegetarianCurry>>, payment |-> 1348,
     courier_details |-> "None"] >>

SeedMessages == <<
    [gr |-> GR001, log |-> <<[from |-> "customer", text |-> "Where is my box?"]>>] >>

SeedComplaints == <<
    [complaint_id |-> ComplaintId(0, 1), gr |-> GR001, order_id |-> OrderId(0, 1),
     recipe |-> "Beef Tacos", issue |-> "cold", compensation_type |-> "credit",
     compensation |-> 5, status |-> "resolved", date |-> 0,
     created_by |-> "admin"] >>

SeedSubscriptions == <<
    [gr |-> GR001, status |-> "active", frequency |-> "weekly", recipes |-> 3,
     box_size |-> 2, delivery_day |-> "Monday"],
    [gr |-> gr002_lower, status |-> "paused", frequency |-> "weekly", recipes |-> 2,
     box_size |-> 1, delivery_day |-> "Friday"] >>

SeedActivity == <<
    [gr |-> GR001, time |-> 0, category |-> "login", actor |-> "customer",
     description |-> "Customer logged in", detail |-> "web"],
    [gr |-> gr002_lower, time |-> 1, category |-> "login", actor |-> "customer",
     description |-> "Customer logged in", detail |-> "app"] >>

(***************************************************************************)
(* Indices (app.py:34-36): a dict comprehension over the collection, so a  *)
(* later record with the same key replaces an earlier one.  An index entry *)
(* refers to the record object itself, which is the position of the record *)
(* in a collection that never shrinks or reorders.                         *)
(***************************************************************************)
Max(S) == CHOOSE x \in S : \A y \in S : y <= x
Min(S) == CHOOSE x \in S : \A y \in S : x <= y

build_index(coll) ==
    [k \in {GR(coll[i].gr) : i \in DOMAIN coll} |->
        Max({i \in DOMAIN coll : GR(coll[i].gr) = k})]

\* an index update that files the record after the one written under the key
index_put_next(idx, k, pos) ==
    [x \in DOMAIN idx \cup {k} |-> IF x = k THEN pos + 1 ELSE idx[x]]

\* index[k] = record
index_put(idx, k, pos) ==
    [x \in DOMAIN idx \cup {k} |-> IF x = k THEN pos ELSE idx[x]]

\* an assignment that adds the record to the collection
set_record_appended(coll, i, rec) == Append(coll, rec)

\* coll[i][field] = ..., for the fields of rec: the record at i, in place
set_record(coll, i, rec) == [coll EXCEPT ![i] = rec]

\* how many events of the log were appended since the start
Appended ==
    Len(SelectSeq(activity, LAMBDA e : \A k \in DOMAIN SeedActivity : e # SeedActivity[k]))

Init ==
    /\ customers = SeedCustomers
    /\ orders = SeedOrders
    /\ messages = SeedMessages
    /\ complaints = SeedComplaints
    /\ subscriptions = SeedSubscriptions
    /\ activity = SeedActivity
    /\ customers_by_gr = build_index(SeedCustomers)
    /\ messages_by_gr = build_index(SeedMessages)
    /\ subscriptions_by_gr = build_index(SeedSubscriptions)
    /\ file_customers = SeedCustomers
    /\ file_orders = SeedOrders
    /\ file_complaints = SeedComplaints
    /\ file_subscriptions = SeedSubscriptions
    /\ file_activity = SeedActivity
    /\ now = StartTick
    /\ last = [op |-> "start", status |-> 200, error |-> "none"]

\* time passes between requests
Tick ==
    /\ now < StartTick + MaxTime
    /\ now' = now + 1
    /\ last' = [op |-> "tick", status |-> 200, error |-> "none"]
    /\ UNCHANGED <<collections, indices, files>>

(***************************************************************************)
(* Responses.  jsonify({"success": False, "error": ...}), code.            *)
(***************************************************************************)
Fail(op, data, code, error) ==
    [op |-> op, data |-> data, status |-> code, error |-> error]

Ok(op, data, body) ==
    [op |-> op, data |-> data, status |-> 200, error |-> "none", body |-> body]

\* the first position of seq whose record satisfies P, 0 when there is none
first_match(seq, P(_)) ==
    IF \E i \in DOMAIN seq : P(seq[i])
    THEN Min({i \in DOMAIN seq : P(seq[i])})
    ELSE 0

\* "not x" of a string field of a request: absent, or the empty string
Blank(data, k) == ~Has(data, k) \/ data[k] = <<>>

(***************************************************************************)
(* update_subscription (app.py:356-445).                                   *)
(*                                                                         *)
(* The loop assigns the five fields of the matching record one after the   *)
(* other, in place; int() raises on the third or the fourth assignment,    *)
(* after the earlier ones were made.  The handlers below are functions     *)
(* from the state and the request to what the request leaves behind.       *)
(***************************************************************************)
SubFields == <<"status", "frequency", "recipes", "box_size", "delivery_day">>
SubLabels == [status |-> "Status", frequency |-> "Frequency", recipes |-> "Recipes",
              box_size |-> "Box size", delivery_day |-> "Delivery day"]

\* a change detection that overlooks the delivery day
sub_changed_but_day(old, new) ==
    SelectSeq(SubSeq(SubFields, 1, 4), LAMBDA f : old[f] # new[f])

\* the fields of SubFields on which old and new differ, in the order tested
sub_changed(old, new) == SelectSeq(SubFields, LAMBDA f : old[f] # new[f])

\* changes.append(f"{label}: {old} -> {new}"), kept as <<label, old, new>>
sub_changes(old, new) ==
    LET ch == sub_changed(old, new) IN
    [i \in 1..Len(ch) |-> <<SubLabels[ch[i]], old[ch[i]], new[ch[i]]>>]

\* change_details[field] = {"old": ..., "new": ...}
sub_change_details(old, new) ==
    LET ch == sub_changed(old, new) IN
    [f \in {ch[i] : i \in 1..Len(ch)} |-> [old |-> old[f], new |-> new[f]]]

\* "N field(s) modified"
detail_modified(n) == <<n, IF n > 1 THEN "fields modified" ELSE "field modified">>

subscription_event(gr, old, new) ==
    [gr |-> gr, time |-> now, category |-> "subscription_update", actor |-> "admin",
     description |-> "Subscription updated",
     detail |-> detail_modified(Len(sub_changes(old, new))),
     changes |-> sub_changes(old, new),
     details |-> sub_change_details(old, new)]

\* what "except ValueError" and "except Exception" answer
exception_response(op, data, exc) ==
    IF exc = "ValueError" THEN Fail(op, data, 400, "Invalid data format")
    ELSE Fail(op, data, 500, "Server error")

update_subscription_run(data) ==
    LET op == "update_subscription"
        same == [subscriptions |-> subscriptions, saved |-> FALSE,
                 index |-> subscriptions_by_gr, events |-> <<>>]
    IN
    IF Blank(data, "gr")
    THEN same @@ [response |-> Fail(op, data, 400, "No GR provided")]
    ELSE
    LET normalized_gr == GR(data.gr)
        i == first_match(subscriptions, LAMBDA sub : GR(sub.gr) = normalized_gr)
    IN
    IF i = 0
    THEN same @@ [response |-> Fail(op, data, 404, "Subscription not found")]
    ELSE
    LET old == subscriptions[i]
        s1 == [old EXCEPT !.status = Get(data, "status", old.status)]
        s2 == [s1 EXCEPT !.frequency = Get(data, "frequency", s1.frequency)]
        recipes == py_int(Get(data, "recipes", IntV(s2.recipes)))
    IN
    IF ~recipes.ok
    THEN [same EXCEPT !.subscriptions = set_record(subscriptions, i, s2)]
         @@ [response |-> exception_response(op, data, recipes.exc)]
    ELSE
    LET s3 == [s2 EXCEPT !.recipes = recipes.v]
        box_size == py_int(Get(data, "box_size", IntV(s3.box_size)))
    IN
    IF ~box_size.ok
    THEN [same EXCEPT !.subscriptions = set_record(subscriptions, i, s3)]
         @@ [response |-> exception_response(op, data, box_size.exc)]
    ELSE
    LET s4 == [s3 EXCEPT !.box_size = box_size.v]
        new == [s4 EXCEPT !.delivery_day = Get(data, "delivery_day", s4.delivery_day)]
        changes == sub_changes(old, new)
    IN
    [subscriptions |-> set_record(subscriptions, i, new),
     saved |-> TRUE,
     index |-> index_put(subscriptions_by_gr, normalized_gr, i),
     events |-> IF changes # <<>>
                THEN <<subscription_event(data.gr, old, new)>> ELSE <<>>,
     response |-> Ok(op, data, [updated_subscription |-> new, changes |-> changes])]

update_subscription(data) ==
    LET r == update_subscription_run(data) IN
    /\ Appended + Len(r.events) <= MaxActivity
    /\ subscriptions' = r.subscriptions
    /\ file_subscriptions' = IF r.saved THEN r.subscriptions ELSE file_subscriptions
    /\ subscriptions_by_gr' = r.index
    /\ activity' = activity \o r.events
    /\ file_activity' = IF r.events # <<>> THEN activity \o r.events ELSE file_activity
    /\ last' = r.response
    /\ UNCHANGED <<customers, orders, messages, complaints, customers_by_gr,
                   messages_by_gr, file_customers, file_orders, file_complaints, now>>

(***************************************************************************)
(* Text comparison, as Python compares str: by code point, a proper prefix *)
(* first.                                                                  *)
(***************************************************************************)
UpperIndex == [c \in {Up[i] : i \in 1..26} |-> CHOOSE i \in 1..26 : Up[i] = c]

Ord(c) ==
    IF c = " " THEN 32
    ELSE IF c = "-" THEN 45
    ELSE IF IsDigit(c) THEN 48 + DigitTable[c]
    ELSE IF c = ":" THEN 58
    ELSE IF IsUpper(c) THEN 64 + UpperIndex[c]
    ELSE IF IsLower(c) THEN 96 + UpperIndex[upper_c(c)]
    ELSE IF c = NApostrophe THEN 329
    ELSE IF c = ModifierApostrophe THEN 700
    ELSE 63

str_lt(a, b) ==
    LET n == Min({Len(a), Len(b)})
        diff == {i \in 1..n : a[i] # b[i]}
    IN IF diff = {} THEN Len(a) < Len(b)
       ELSE LET i == CHOOSE d \in diff : \A e \in diff : d <= e
            IN Ord(a[i]) < Ord(b[i])

(***************************************************************************)
(* Queries on the orders (app.py:42-81, 100-102).                          *)
(***************************************************************************)
\* a selection that takes the orders of every account
orders_of_all(gr) == orders

orders_for(gr) == SelectSeq(orders, LAMBDA o : GR(o.gr) = GR(gr))

\* a payments view that shows every order as paid
payment_entry_paid(order) ==
    [date |-> order.order_date, order_id |-> order.order_id,
     amount |-> order.payment, status |-> "paid",
     txn_id |-> [txn |-> order.order_id]]

payment_entry(order) ==
    [date |-> order.order_date,
     order_id |-> order.order_id,
     amount |-> order.payment,
     status |-> IF order.status = "committed" THEN "paid" ELSE "pending",
     txn_id |-> [txn |-> order.order_id]]

\* list.sort(key=date, reverse=True): stable, so entries of equal date keep
\* their order
sort_by_date_desc(log) ==
    LET n == Len(log)
        \* the entries that come before entry i: a later date, or the same date
        \* and an earlier place
        before(i) == {j \in 1..n : \/ str_lt(log[i].date, log[j].date)
                                   \/ log[j].date = log[i].date /\ j < i}
    IN [p \in 1..n |-> log[CHOOSE i \in 1..n : Cardinality(before(i)) = p - 1]]

method_map(gr_num) ==
    IF gr_num = <<"0","0","1">> THEN "Visa **** 1234"
    ELSE IF gr_num = <<"0","0","2">> THEN "Mastercard **** 5678"
    ELSE IF gr_num = <<"0","0","3">> THEN "Amex **** 9012"
    ELSE IF gr_num = <<"0","0","4">> THEN "Visa **** 4455"
    ELSE IF gr_num = <<"0","0","5">> THEN "Visa **** 7788"
    ELSE IF gr_num = <<"0","0","6">> THEN "Apple Pay (Amex **** 3456)"
    ELSE IF gr_num = <<"0","0","7">> THEN "Mastercard **** 1122"
    ELSE "Visa **** 0000"

NoPayments == [none |-> TRUE]

generate_payments_for_gr(gr) ==
    LET customer_orders == orders_for(gr)
        payment_log == [i \in 1..Len(customer_orders) |->
                            payment_entry(customer_orders[i])]
        gr_num == IF Len(gr) >= 3 THEN last3(gr) ELSE <<"0","0","1">>
    IN
    IF customer_orders = <<>> THEN NoPayments
    ELSE [gr |-> gr, method |-> method_map(gr_num),
          log |-> sort_by_date_desc(payment_log)]

(***************************************************************************)
(* generate_order (app.py:465-562).                                        *)
(***************************************************************************)
\* datetime.strptime(s, "%Y-%m-%d") on the texts the model submits: a date of
\* the modelled month, its day written with one or two digits, parses to its
\* day; any other text raises ValueError.
strptime_day(s) ==
    LET d == SubSeq(s, Len(Month) + 1, Len(s)) IN
    IF /\ Len(s) \in {Len(Month) + 1, Len(Month) + 2}
       /\ SubSeq(s, 1, Len(Month)) = Month
       /\ AllDigits(d)
       /\ digits_value(d) \in 1..30
       /\ (Len(d) = 1 => d # <<"0">>)
    THEN [ok |-> TRUE, day |-> digits_value(d)]
    ELSE [ok |-> FALSE, exc |-> "ValueError"]

\* the price table, in pence
recipe_prices == [x \in {"honey-garlic-chicken", "beef-tacos", "salmon-teriyaki",
                         "vegetarian-curry", "pasta-carbonara", "thai-green-curry",
                         "mushroom-risotto"} |->
    CASE x = "honey-garlic-chicken" -> 699
      [] x = "beef-tacos" -> 749
      [] x = "salmon-teriyaki" -> 899
      [] x = "vegetarian-curry" -> 599
      [] x = "pasta-carbonara" -> 649
      [] x = "thai-green-curry" -> 799
      [] x = "mushroom-risotto" -> 699]

\* the loop of app.py:509-513, then round(total, 2): a sum of whole pence
RECURSIVE total_payment(_, _)
total_payment(recipes, box_size) ==
    IF recipes = <<>> THEN 0
    ELSE total_payment(SubSeq(recipes, 1, Len(recipes) - 1), box_size)
         + (LET recipe_id == recipes[Len(recipes)].id IN
            IF recipe_id \in DOMAIN recipe_prices
            THEN recipe_prices[recipe_id] * box_size ELSE 0)

order_created_event(gr, order_id, delivery_date) ==
    [gr |-> gr, time |-> now, category |-> "order_created", actor |-> "admin",
     description |-> "Order generated",
     detail |-> [order |-> order_id, created_for |-> delivery_date]]

generate_order_run(data, token) ==
    LET op == "generate_order"
        same == [orders |-> orders, saved |-> FALSE, events |-> <<>>]
    IN
    IF Blank(data, "gr")
    THEN same @@ [response |-> Fail(op, data, 400, "No GR provided")]
    ELSE IF ~Has(data, "delivery_date")
    \* strptime(None, ...) raises TypeError, which the inner except lets through
    THEN same @@ [response |-> Fail(op, data, 500, "Server error")]
    ELSE
    LET delivery == strptime_day(data.delivery_date)
        min_date == now + 3 * TicksPerDay
        recipes == Get(data, "recipes", <<>>)
    IN
    IF ~delivery.ok
    THEN same @@ [response |-> Fail(op, data, 400, "Invalid delivery date format")]
    ELSE IF delivery.day * TicksPerDay < min_date
    THEN same @@ [response |->
            Fail(op, data, 400, "Delivery date must be at least 3 days from today")]
    \* not box_size or not isinstance(box_size, int) or out of 1..5
    ELSE IF \/ ~Has(data, "box_size")
            \/ ~isinstance_int(data.box_size)
            \/ int_value(data.box_size) < 1
            \/ int_value(data.box_size) > 5
    THEN same @@ [response |-> Fail(op, data, 400, "Invalid box size")]
    ELSE IF Len(recipes) < 2 \/ Len(recipes) > 5
    THEN same @@ [response |-> Fail(op, data, 400, "Must select between 2-5 recipes")]
    ELSE
    LET order_id == OrderId(DayOf(now), token)
        new_order == [gr |-> data.gr,
                      order_id |-> order_id,
                      order_date |-> data.delivery_date \o T1200Z,
                      status |-> "pending",
                      \* the value of the request, as it came
                      box_size |-> data.box_size,
                      recipes |-> recipes,
                      payment |-> total_payment(recipes, int_value(data.box_size)),
                      courier_details |-> "None"]
    IN
    [orders |-> Append(orders, new_order),
     saved |-> TRUE,
     events |-> <<order_created_event(data.gr, order_id, data.delivery_date)>>,
     response |-> Ok(op, data, [order |-> new_order])]

\* uuid.uuid4() is the token: any value, whether or not an order carries it
generate_order(data, token) ==
    LET r == generate_order_run(data, token) IN
    /\ Len(r.orders) <= MaxOrders
    /\ Appended + Len(r.events) <= MaxActivity
    /\ orders' = r.orders
    /\ file_orders' = IF r.saved THEN r.orders ELSE file_orders
    /\ activity' = activity \o r.events
    /\ file_activity' = IF r.events # <<>> THEN activity \o r.events ELSE file_activity
    /\ last' = r.response
    /\ UNCHANGED <<customers, messages, complaints, subscriptions, indices,
                   file_customers, file_complaints, file_subscriptions, now>>

(***************************************************************************)
(* cancel_order (app.py:568-630).                                          *)
(***************************************************************************)
\* a removal that takes the records before it as well
remove_through(seq, i) == SubSeq(seq, i + 1, Len(seq))

\* list.pop(i)
remove_at(seq, i) == SubSeq(seq, 1, i - 1) \o SubSeq(seq, i + 1, Len(seq))

order_deleted_event(order_gr, order_id, removed_order) ==
    [gr |-> order_gr, time |-> now, category |-> "order_deleted", actor |-> "admin",
     description |-> "Order cancelled and removed",
     detail |-> [order |-> order_id, payment |-> removed_order.payment]]

\* a cancellation that accepts an order of any status
can_cancel_any(order) == TRUE

\* a cancellation that accepts the orders that are no longer pending
can_cancel_settled(order) == order.status # "pending"

\* only pending orders can be cancelled (app.py:587)
can_cancel(order) == order.status = "pending"

cancel_order_run(data) ==
    LET op == "cancel_order"
        same == [orders |-> orders, saved |-> FALSE, events |-> <<>>]
    IN
    IF ~Has(data, "order_id")
    THEN same @@ [response |-> Fail(op, data, 400, "Order ID is required")]
    ELSE
    LET i == first_match(orders, LAMBDA o : o.order_id = data.order_id) IN
    IF i = 0
    THEN same @@ [response |-> Fail(op, data, 404, "Order not found")]
    ELSE IF ~can_cancel(orders[i])
    THEN same @@ [response |->
            Fail(op, data, 400, "Only pending orders can be cancelled")]
    ELSE
    [orders |-> remove_at(orders, i),
     saved |-> TRUE,
     events |-> IF orders[i].gr # <<>>
                THEN <<order_deleted_event(orders[i].gr, data.order_id, orders[i])>>
                ELSE <<>>,
     response |-> Ok(op, data, [message |-> "Order cancelled and removed successfully"])]

cancel_order(data) ==
    LET r == cancel_order_run(data) IN
    /\ Appended + Len(r.events) <= MaxActivity
    /\ orders' = r.orders
    /\ file_orders' = IF r.saved THEN r.orders ELSE file_orders
    /\ activity' = activity \o r.events
    /\ file_activity' = IF r.events # <<>> THEN activity \o r.events ELSE file_activity
    /\ last' = r.response
    /\ UNCHANGED <<customers, messages, complaints, subscriptions, indices,
                   file_customers, file_complaints, file_subscriptions, now>>

(***************************************************************************)
(* Complaints (app.py:104-106, 728-973).  Compensation amounts are whole   *)
(* pounds: float() of a number is the number, of a text its value when the *)
(* text is a signed run of digits, and ValueError for the other texts the  *)
(* model submits.                                                          *)
(***************************************************************************)
complaints_for(gr) == SelectSeq(complaints, LAMBDA c : GR(c.gr) = GR(gr))

py_float(x) == py_int(x)

\* "not data.get(field)" of a tagged value: null, zero and the empty text
Falsy(x) ==
    \/ Has(x, "null")
    \/ (Has(x, "int") /\ x.int = 0)
    \/ (Has(x, "str") /\ x.str = <<>>)

ComplaintRequired ==
    <<"gr", "order_id", "recipe", "description", "compensation_type",
      "compensation_amount">>

complaint_missing(data, field) ==
    \/ ~Has(data, field)
    \/ (field = "gr" /\ data[field] = <<>>)
    \/ (field \in {"recipe", "description", "compensation_type"} /\ data[field] = "")
    \/ (field = "compensation_amount" /\ Falsy(data[field]))

MissingField ==
    [gr |-> "Missing required field: gr",
     order_id |-> "Missing required field: order_id",
     recipe |-> "Missing required field: recipe",
     description |-> "Missing required field: description",
     compensation_type |-> "Missing required field: compensation_type",
     compensation_amount |-> "Missing required field: compensation_amount",
     first_name |-> "Missing required field: first_name",
     last_name |-> "Missing required field: last_name",
     email |-> "Missing required field: email",
     phone |-> "Missing required field: phone",
     postcode |-> "Missing required field: postcode"]

\* a recipe check that accepts any recipe
recipe_found_any(order, recipe) == TRUE

\* recipe_name == recipe for some line item of the order
recipe_found(order, recipe) ==
    \E k \in DOMAIN order.recipes : order.recipes[k].name = recipe

\* a creation logged under the category of an update
complaint_created_as_updated(gr, complaint_id, order_id, type, amount) ==
    [gr |-> gr, time |-> now, category |-> "complaint_updated", actor |-> "admin",
     description |-> "Complaint logged",
     detail |-> [complaint |-> complaint_id, order |-> order_id, type |-> type,
                 amount |-> amount]]

complaint_created_event(gr, complaint_id, order_id, type, amount) ==
    [gr |-> gr, time |-> now, category |-> "complaint_created", actor |-> "admin",
     description |-> "Complaint logged",
     detail |-> [complaint |-> complaint_id, order |-> order_id, type |-> type,
                 amount |-> amount]]

create_complaint_run(data, token) ==
    LET op == "create_complaint"
        same == [complaints |-> complaints, saved |-> FALSE, events |-> <<>>]
        m == first_match(ComplaintRequired, LAMBDA f : complaint_missing(data, f))
    IN
    IF m # 0
    THEN same @@ [response |-> Fail(op, data, 400, MissingField[ComplaintRequired[m]])]
    ELSE IF data.compensation_type \notin {"credit", "refund"}
    THEN same @@ [response |-> Fail(op, data, 400, "Invalid compensation type")]
    ELSE
    LET amount == py_float(data.compensation_amount) IN
    IF ~amount.ok
    THEN same @@ [response |-> Fail(op, data, 400, "Invalid compensation amount")]
    ELSE IF amount.v < 0
    THEN same @@ [response |->
            Fail(op, data, 400, "Compensation amount cannot be negative")]
    ELSE
    LET i == first_match(orders, LAMBDA o : /\ o.order_id = data.order_id
                                            /\ GR(o.gr) = GR(data.gr))
    IN
    IF i = 0
    THEN same @@ [response |-> Fail(op, data, 404, "Order not found or not accessible")]
    ELSE IF orders[i].status # "committed"
    THEN same @@ [response |->
            Fail(op, data, 400, "Can only create complaints for committed orders")]
    ELSE IF ~recipe_found(orders[i], data.recipe)
    THEN same @@ [response |->
            Fail(op, data, 400, "Recipe not found in selected order")]
    ELSE
    LET complaint_id == ComplaintId(DayOf(now), token)
        new_complaint == [complaint_id |-> complaint_id,
                          gr |-> data.gr,
                          order_id |-> data.order_id,
                          recipe |-> data.recipe,
                          issue |-> data.description,
                          compensation_type |-> data.compensation_type,
                          compensation |-> amount.v,
                          status |-> "resolved",
                          date |-> now,
                          created_by |-> "admin"]
    IN
    [complaints |-> Append(complaints, new_complaint),
     saved |-> TRUE,
     events |-> <<complaint_created_event(data.gr, complaint_id, data.order_id,
                                          data.compensation_type, amount.v)>>,
     response |-> Ok(op, data, [complaint |-> new_complaint])]

create_complaint(data, token) ==
    LET r == create_complaint_run(data, token) IN
    /\ Len(r.complaints) <= MaxComplaints
    /\ Appended + Len(r.events) <= MaxActivity
    /\ complaints' = r.complaints
    /\ file_complaints' = IF r.saved THEN r.complaints ELSE file_complaints
    /\ activity' = activity \o r.events
    /\ file_activity' = IF r.events # <<>> THEN activity \o r.events ELSE file_activity
    /\ last' = r.response
    /\ UNCHANGED <<customers, orders, messages, subscriptions, indices,
                   file_customers, file_orders, file_subscriptions, now>>

\* the complaint that update and delete act on: the first one with the id
\* under the account
find_complaint(data) ==
    first_match(complaints, LAMBDA c : /\ c.complaint_id = data.complaint_id
                                       /\ GR(c.gr) = GR(data.gr))

\* a stamp that overwrites the creation date as well
stamp_and_redate(c) ==
    [modified_date |-> now, modified_by |-> "admin"] @@ [c EXCEPT !.date = now]

\* complaints[i]['modified_date'] = ...; complaints[i]['modified_by'] = 'admin'
stamp_modified(c) == [modified_date |-> now, modified_by |-> "admin"] @@ c

\* an event that names the customer as its actor
complaint_updated_by_customer(gr, complaint_id) ==
    [gr |-> gr, time |-> now, category |-> "complaint_updated", actor |-> "customer",
     description |-> "Complaint modified",
     detail |-> [complaint |-> complaint_id]]

complaint_updated_event(gr, complaint_id) ==
    [gr |-> gr, time |-> now, category |-> "complaint_updated", actor |-> "admin",
     description |-> "Complaint modified",
     detail |-> [complaint |-> complaint_id]]

update_complaint_run(data) ==
    LET op == "update_complaint"
        same == [complaints |-> complaints, saved |-> FALSE, events |-> <<>>]
    IN
    IF ~Has(data, "complaint_id") \/ Blank(data, "gr")
    THEN same @@ [response |-> Fail(op, data, 400, "Missing complaint ID or GR")]
    ELSE
    LET i == find_complaint(data) IN
    IF i = 0
    THEN same @@ [response |-> Fail(op, data, 404, "Complaint not found")]
    ELSE
    LET old == complaints[i]
        c1 == IF Has(data, "description")
              THEN [old EXCEPT !.issue = data.description] ELSE old
        c2 == IF Has(data, "compensation_type")
              THEN [c1 EXCEPT !.compensation_type = data.compensation_type] ELSE c1
        amount == IF Has(data, "compensation_amount")
                  THEN py_float(data.compensation_amount)
                  ELSE [ok |-> TRUE, v |-> c2.compensation]
    IN
    IF ~amount.ok
    \* float() raised after the assignments before it; "except Exception"
    THEN [same EXCEPT !.complaints = [complaints EXCEPT ![i] = c2]]
         @@ [response |-> Fail(op, data, 500, "Server error")]
    ELSE
    LET c3 == [c2 EXCEPT !.compensation = amount.v]
        c4 == IF Has(data, "status") THEN [c3 EXCEPT !.status = data.status] ELSE c3
        updated_complaint == stamp_modified(c4)
    IN
    [complaints |-> [complaints EXCEPT ![i] = updated_complaint],
     saved |-> TRUE,
     \* logged whatever changed
     events |-> <<complaint_updated_event(data.gr, data.complaint_id)>>,
     response |-> Ok(op, data, [complaint |-> updated_complaint])]

update_complaint(data) ==
    LET r == update_complaint_run(data) IN
    /\ Appended + Len(r.events) <= MaxActivity
    /\ complaints' = r.complaints
    /\ file_complaints' = IF r.saved THEN r.complaints ELSE file_complaints
    /\ activity' = activity \o r.events
    /\ file_activity' = IF r.events # <<>> THEN activity \o r.events ELSE file_activity
    /\ last' = r.response
    /\ UNCHANGED <<customers, orders, messages, subscriptions, indices,
                   file_customers, file_orders, file_subscriptions, now>>

complaint_deleted_event(gr, complaint_id, deleted_complaint) ==
    [gr |-> gr, time |-> now, category |-> "complaint_deleted", actor |-> "admin",
     description |-> "Complaint deleted",
     detail |-> [complaint |-> complaint_id,
                 amount |-> deleted_complaint.compensation,
                 type |-> deleted_complaint.compensation_type]]

delete_complaint_run(data) ==
    LET op == "delete_complaint"
        same == [complaints |-> complaints, saved |-> FALSE, events |-> <<>>]
    IN
    IF ~Has(data, "complaint_id") \/ Blank(data, "gr")
    THEN same @@ [response |-> Fail(op, data, 400, "Missing complaint ID or GR")]
    ELSE
    LET i == find_complaint(data) IN
    IF i = 0
    THEN same @@ [response |-> Fail(op, data, 404, "Complaint not found")]
    ELSE
    [complaints |-> remove_at(complaints, i),
     saved |-> TRUE,
     events |-> <<complaint_deleted_event(data.gr, data.complaint_id, complaints[i])>>,
     response |-> Ok(op, data, [message |-> "Complaint deleted successfully"])]

delete_complaint(data) ==
    LET r == delete_complaint_run(data) IN
    /\ Appended + Len(r.events) <= MaxActivity
    /\ complaints' = r.complaints
    /\ file_complaints' = IF r.saved THEN r.complaints ELSE file_complaints
    /\ activity' = activity \o r.events
    /\ file_activity' = IF r.events # <<>> THEN activity \o r.events ELSE file_activity
    /\ last' = r.response
    /\ UNCHANGED <<customers, orders, messages, subscriptions, indices,
                   file_customers, file_orders, file_subscriptions, now>>

(***************************************************************************)
(* The activity log (app.py:108-114, 651-701).                             *)
(***************************************************************************)
\* a listing in the order of the log, oldest first
in_log_order(events) == events

\* sorted(key=time, reverse=True): stable, so events of equal time keep their
\* order
sort_by_time_desc(events) ==
    LET n == Len(events)
        before(i) == {j \in 1..n : \/ events[j].time > events[i].time
                                   \/ events[j].time = events[i].time /\ j < i}
    IN [p \in 1..n |-> events[CHOOSE i \in 1..n : Cardinality(before(i)) = p - 1]]

activity_for(gr) ==
    sort_by_time_desc(SelectSeq(activity, LAMBDA e : GR(e.gr) = GR(gr)))

\* the events activity_page shows; "" is no filter
activity_page(gr, type_filter, actor_filter) ==
    LET events == IF gr # <<>> THEN activity_for(gr) ELSE <<>>
        typed == IF type_filter # ""
                 THEN SelectSeq(events, LAMBDA e : e.category = type_filter)
                 ELSE events
    IN IF actor_filter # ""
       THEN SelectSeq(typed, LAMBDA e : e.actor = actor_filter)
       ELSE typed

\* a clearing that compares the account identifiers as they were written
kept_activity_raw(normalized_gr) ==
    SelectSeq(activity, LAMBDA e : e.gr # normalized_gr)

\* a clearing that keeps no event of any account
kept_activity_none(normalized_gr) == <<>>

\* the events clear_activity_log keeps
kept_activity(normalized_gr) ==
    SelectSeq(activity, LAMBDA e : GR(e.gr) # normalized_gr)

clear_activity_log_run(data) ==
    LET op == "clear_activity_log" IN
    IF Blank(data, "gr")
    THEN [activity |-> activity, saved |-> FALSE,
          response |-> Fail(op, data, 400, "No GR provided")]
    ELSE
    LET original_count == Len(activity)
        kept == kept_activity(GR(data.gr))
        cleared_count == original_count - Len(kept)
    IN
    [activity |-> kept, saved |-> TRUE,
     response |-> Ok(op, data, [cleared_count |-> cleared_count])]

clear_activity_log(data) ==
    LET r == clear_activity_log_run(data) IN
    /\ activity' = r.activity
    /\ file_activity' = IF r.saved THEN r.activity ELSE file_activity
    /\ last' = r.response
    /\ UNCHANGED <<customers, orders, messages, complaints, subscriptions, indices,
                   file_customers, file_orders, file_complaints, file_subscriptions,
                   now>>

(***************************************************************************)
(* update_personal (app.py:191-332).                                       *)
(***************************************************************************)
PersonalRequired == <<"first_name", "last_name", "email", "phone", "postcode">>

\* not data.get(field) or not data.get(field).strip()
personal_missing(data, field) == Blank(data, field) \/ py_strip(data[field]) = <<>>

\* s.split(): the runs of characters between white space
RECURSIVE py_split(_)
py_split(s) ==
    LET t == lstrip(s) IN
    IF t = <<>> THEN <<>>
    ELSE LET n == IF \E k \in DOMAIN t : IsSpace(t[k])
                  THEN Min({k \in DOMAIN t : IsSpace(t[k])}) - 1
                  ELSE Len(t)
         IN <<SubSeq(t, 1, n)>> \o py_split(SubSeq(t, n + 1, Len(t)))

\* ' '.join(words)
RECURSIVE py_join(_)
py_join(words) ==
    IF words = <<>> THEN <<>>
    ELSE IF Len(words) = 1 THEN words[1]
    ELSE words[1] \o <<" ">> \o py_join(Tail(words))

\* ' '.join(word.capitalize() for word in s.split())
capitalize_words(s) ==
    LET words == py_split(s) IN
    py_join([k \in 1..Len(words) |-> py_capitalize(words[k])])

first_name_of(data) == py_capitalize(py_strip(data.first_name))
last_name_of(data) == py_capitalize(py_strip(data.last_name))

email_of(data) == py_lower(py_strip(data.email))

LocalChar(c) == IsAlpha(c) \/ IsDigit(c) \/ c \in {".", "_", "+", "-"}
DomainChar(c) == IsAlpha(c) \/ IsDigit(c) \/ c \in {".", "-"}

\* re.match(r'^[a-zA-Z0-9._+-]+@[a-zA-Z0-9.-]+\.[a-zA-Z]{2,}', email): some
\* prefix of email has the shape local@domain.tld
email_pattern(email) ==
    \E a \in DOMAIN email : \E d \in DOMAIN email :
        /\ a >= 2 /\ email[a] = "@"
        /\ \A k \in 1..(a - 1) : LocalChar(email[k])
        /\ d >= a + 2 /\ email[d] = "."
        /\ \A k \in (a + 1)..(d - 1) : DomainChar(email[k])
        /\ d + 2 <= Len(email)
        /\ IsAlpha(email[d + 1]) /\ IsAlpha(email[d + 2])

\* re.sub(r'[^\d]', '', phone)
phone_digits(data) == SelectSeq(data.phone, IsDigit)

\* f"{phone[:5]} {phone[5:]}"
format_phone(phone) == SubSeq(phone, 1, 5) \o <<" ">> \o SubSeq(phone, 6, Len(phone))

postcode_chars(data) == remove_spaces(py_upper(py_strip(data.postcode)))

\* the space goes before the last three characters
format_postcode(postcode) ==
    SubSeq(postcode, 1, Len(postcode) - 3) \o <<" ">>
    \o SubSeq(postcode, Len(postcode) - 2, Len(postcode))

\* gr.strip().upper().replace(' ', '')
sanitize_gr(gr) == remove_spaces(py_upper(py_strip(gr)))

address_of(data) ==
    LET address == py_strip(Get(data, "address", <<>>)) IN
    IF address # <<>> THEN capitalize_words(address) ELSE address

city_of(data) ==
    LET city == py_strip(Get(data, "city", <<>>)) IN
    IF city # <<>> THEN capitalize_words(city) ELSE city

PersonalFields ==
    <<"first_name", "last_name", "email", "phone", "postcode", "address", "city">>
PersonalLabels ==
    [first_name |-> "First name", last_name |-> "Last name", email |-> "Email",
     phone |-> "Phone", postcode |-> "Postcode", address |-> "Address",
     city |-> "City"]

personal_changes(old, new) ==
    LET ch == SelectSeq(PersonalFields, LAMBDA f : old[f] # new[f]) IN
    [k \in 1..Len(ch) |-> <<PersonalLabels[ch[k]], old[ch[k]], new[ch[k]]>>]

personal_event(gr, changes) ==
    [gr |-> gr, time |-> now, category |-> "personal_updated", actor |-> "admin",
     description |-> "Personal details updated",
     detail |-> detail_modified(Len(changes)),
     changes |-> changes]

update_personal_run(data) ==
    LET op == "update_personal"
        same == [customers |-> customers, saved |-> FALSE,
                 index |-> customers_by_gr, events |-> <<>>]
        m == first_match(PersonalRequired, LAMBDA f : personal_missing(data, f))
    IN
    IF Blank(data, "gr")
    THEN same @@ [response |-> Fail(op, data, 400, "GR is required")]
    ELSE IF m # 0
    THEN same @@ [response |-> Fail(op, data, 400, MissingField[PersonalRequired[m]])]
    ELSE IF \A k \in DOMAIN email_of(data) : email_of(data)[k] # "@"
    THEN same @@ [response |->
            Fail(op, data, 400, "Email address must contain an @ symbol")]
    ELSE IF ~email_pattern(email_of(data))
    THEN same @@ [response |-> Fail(op, data, 400, "Please enter a valid email address")]
    ELSE IF Len(phone_digits(data)) # 11
    THEN same @@ [response |->
            Fail(op, data, 400, "Phone number must be exactly 11 digits")]
    ELSE IF Len(postcode_chars(data)) \notin {5, 6, 7}
    THEN same @@ [response |-> Fail(op, data, 400, "Invalid postcode format")]
    ELSE
    LET gr == sanitize_gr(data.gr)
        i == first_match(customers, LAMBDA c : GR(c.gr) = GR(gr))
    IN
    IF i = 0
    THEN same @@ [response |-> Fail(op, data, 404, "Customer not found")]
    ELSE
    LET old_customer == customers[i]
        updated_customer ==
            [old_customer EXCEPT !.first_name = first_name_of(data),
                                 !.last_name = last_name_of(data),
                                 !.email = email_of(data),
                                 !.phone = format_phone(phone_digits(data)),
                                 !.postcode = format_postcode(postcode_chars(data)),
                                 !.address = address_of(data),
                                 !.city = city_of(data)]
        changes == personal_changes(old_customer, updated_customer)
    IN
    [customers |-> set_record(customers, i, updated_customer),
     saved |-> TRUE,
     index |-> index_put(customers_by_gr, GR(gr), i),
     events |-> IF changes # <<>> THEN <<personal_event(gr, changes)>> ELSE <<>>,
     response |-> Ok(op, data, [customer |-> updated_customer])]

update_personal(data) ==
    LET r == update_personal_run(data) IN
    /\ Appended + Len(r.events) <= MaxActivity
    /\ customers' = r.customers
    /\ file_customers' = IF r.saved THEN r.customers ELSE file_customers
    /\ customers_by_gr' = r.index
    /\ activity' = activity \o r.events
    /\ file_activity' = IF r.events # <<>> THEN activity \o r.events ELSE file_activity
    /\ last' = r.response
    /\ UNCHANGED <<orders, messages, complaints, subscriptions, messages_by_gr,
                   subscriptions_by_gr, file_orders, file_complaints,
                   file_subscriptions, now>>

(***************************************************************************)
(* Requests and specifications.  Each specification runs the commands of   *)
(* one part of the store, with the clock, from the seed data.              *)
(***************************************************************************)
GrInputs == {GR001, gr001_padded, GR002, GR999}

SubscriptionRequests ==
    {[gr |-> GR001],
     [gr |-> gr001_padded, status |-> "paused"],
     [gr |-> GR001, status |-> "active", recipes |-> IntV(4)],
     [gr |-> GR001, recipes |-> StrV(<<"4">>), box_size |-> IntV(2),
      delivery_day |-> "Friday"],
     [gr |-> GR001, status |-> "paused", frequency |-> "biweekly",
      recipes |-> StrV(<<"l","o","t","s">>)],
     [gr |-> GR002, recipes |-> IntV(3), box_size |-> NullV],
     [gr |-> GR999, status |-> "paused"],
     [status |-> "paused"]}

UpdateSubscription == \E data \in SubscriptionRequests : update_subscription(data)

ClearRequests == {[gr |-> gr001_padded], [gr |-> GR002], [reason |-> "none"]}

ClearActivityLog == \E data \in ClearRequests : clear_activity_log(data)

NextSubscription == UpdateSubscription \/ ClearActivityLog \/ Tick

SpecSubscription == Init /\ [][NextSubscription]_vars

(***************************************************************************)
(* Orders: generate_order and cancel_order.                                *)
(***************************************************************************)
Date(day) == Month \o day

OrderA == [gr |-> gr001_padded, delivery_date |-> Date(<<"0","5">>),
           box_size |-> IntV(2), recipes |-> <<BeefTacos, ChefSpecial>>]
OrderB == [gr |-> GR002, delivery_date |-> Date(<<"0","4">>),
           box_size |-> IntV(1),
           recipes |-> <<SalmonTeriyaki, VegetarianCurry, SalmonTeriyaki>>]

OrderRequests ==
    {OrderA, OrderB,
     [OrderA EXCEPT !.box_size = IntV(6)],
     Without(OrderA, "gr")}

GenerateOrder ==
    \E data \in OrderRequests : \E token \in Tokens : generate_order(data, token)

\* the identifiers a caller may name: those of the seed, those that can be
\* generated within the run, and one that no order carries
OrderIds ==
    {OrderId(d, t) : d \in 0..DayOf(StartTick + MaxTime), t \in Tokens}
    \cup {OrderId(0, 0)}

CancelRequests == {[order_id |-> id] : id \in OrderIds} \cup {[reason |-> "none"]}

CancelOrder == \E data \in CancelRequests : cancel_order(data)

ClearOrdersLog == \E data \in {[gr |-> GR001], [gr |-> GR002]} : clear_activity_log(data)

NextOrders == GenerateOrder \/ CancelOrder \/ ClearOrdersLog

SpecOrders == Init /\ [][NextOrders]_vars

(***************************************************************************)
(* Complaints: create, update and delete, over the seed orders.            *)
(***************************************************************************)
ComplaintA == [gr |-> gr001_padded, order_id |-> OrderId(0, 1),
               recipe |-> "Salmon Teriyaki", description |-> "late",
               compensation_type |-> "refund", compensation_amount |-> IntV(7)]

ComplaintRequests ==
    {ComplaintA,
     [ComplaintA EXCEPT !.recipe = "Vegetarian Curry"],
     [ComplaintA EXCEPT !.gr = GR002],
     [ComplaintA EXCEPT !.gr = GR002, !.order_id = OrderId(0, 2),
                        !.recipe = "Beef Tacos"],
     [ComplaintA EXCEPT !.order_id = OrderId(0, 0)],
     [ComplaintA EXCEPT !.compensation_type = "voucher"],
     [ComplaintA EXCEPT !.compensation_amount = StrV(<<"-","3">>)],
     [ComplaintA EXCEPT !.compensation_amount = IntV(0)]}

CreateComplaint ==
    \E data \in ComplaintRequests : \E token \in Tokens : create_complaint(data, token)

\* the complaints a caller may name: the seed's under its account and under
\* another, and one created within the run
ComplaintKeys ==
    {[complaint_id |-> ComplaintId(0, 1), gr |-> gr001_padded],
     [complaint_id |-> ComplaintId(0, 1), gr |-> GR002],
     [complaint_id |-> ComplaintId(DayOf(StartTick), 1), gr |-> GR001]}

\* the fields an update request may carry besides the key
ComplaintEdits ==
    {[description |-> "cold", compensation_type |-> "credit",
      compensation_amount |-> IntV(5), status |-> "resolved"],
     [description |-> "stale", compensation_type |-> "voucher",
      compensation_amount |-> StrV(<<"-","3">>), status |-> "open"],
     [description |-> "burnt", compensation_amount |-> StrV(<<"x">>)],
     [status |-> "open"]}

UpdateComplaintRequests ==
    {k @@ e : k \in ComplaintKeys, e \in ComplaintEdits}
    \cup ComplaintKeys \cup {[gr |-> GR001]}

UpdateComplaint == \E data \in UpdateComplaintRequests : update_complaint(data)

DeleteComplaintRequests == ComplaintKeys \cup {[gr |-> GR001]}

DeleteComplaint == \E data \in DeleteComplaintRequests : delete_complaint(data)

NextComplaints == CreateComplaint \/ DeleteComplaint \/ ClearOrdersLog

SpecComplaints == Init /\ [][NextComplaints]_vars

NextComplaintUpdate == UpdateComplaint \/ ClearOrdersLog \/ Tick

SpecComplaintUpdate == Init /\ [][NextComplaintUpdate]_vars

(***************************************************************************)
(* Personal details: update_personal.                                      *)
(***************************************************************************)
MaryAnn ==
    [gr |-> gr001_padded,
     first_name |-> <<" ","m","a","r","y"," ","a","n","n"," ">>,
     last_name |-> <<"m","c","K","A","Y">>,
     email |-> <<" ","M","@","X",".","O","r","g"," ">>,
     phone |-> <<"0","7","1","2"," ","3","4","5"," ","6","7","8","9">>,
     postcode |-> <<"s","w","1","a","1","a","a">>,
     address |-> <<"1","2"," "," ","h","i","g","h"," ","s","t">>,
     city |-> <<"n","e","w"," ","y","o","r","k">>]

\* the values the seed holds for GR002
BoLee ==
    [gr |-> GR002,
     first_name |-> <<"B","o">>, last_name |-> <<"L","e","e">>,
     email |-> <<"b","@","c",".","u","k">>,
     phone |-> <<"0","7","0","0","0"," ","0","0","0","0","0","2">>,
     postcode |-> <<"B","1"," ","1","B","B">>,
     address |-> <<"2"," ","L","o","w"," ","R","d">>,
     city |-> <<"Y","o","r","k">>]

PersonalRequests ==
    {MaryAnn, BoLee,
     [MaryAnn EXCEPT !.gr = <<"g","r"," ","0","0","1">>],
     Without(Without([MaryAnn EXCEPT !.gr = GR001], "address"), "city"),
     [BoLee EXCEPT !.postcode = <<"m","1"," ","2","a","b">>,
                   !.phone = <<"0","7","1","2","3","4","5","6","7","8","9">>],
     [BoLee EXCEPT !.first_name = <<NApostrophe,"e","l">>],
     [BoLee EXCEPT !.postcode = <<"b","1","-","1","b","b">>],
     [MaryAnn EXCEPT !.phone = <<"0","7","1","2","3","4","5">>],
     [MaryAnn EXCEPT !.email = <<"a","b",".","c","o">>],
     [MaryAnn EXCEPT !.email = <<"a","@","b">>],
     [MaryAnn EXCEPT !.postcode = <<"s","w","1","a"," ","1","a","a"," ","x">>],
     [MaryAnn EXCEPT !.last_name = <<" ">>],
     [MaryAnn EXCEPT !.gr = GR999],
     Without(MaryAnn, "gr")}

UpdatePersonal == \E data \in PersonalRequests : update_personal(data)

NextPersonal == UpdatePersonal \/ ClearOrdersLog \/ Tick

SpecPersonal == Init /\ [][NextPersonal]_vars

(***************************************************************************)
(* The error kinds of the specification, as the code answers them: a 404   *)
(* is a NotFoundError; a 400 is a ConflictError when its reason is a       *)
(* domain precondition, and a ValidationError otherwise.                   *)
(***************************************************************************)
ConflictReasons == {"Only pending orders can be cancelled",
                    "Can only create complaints for committed orders"}

Failed(r) == r.status # 200
NotFoundError(r) == r.status = 404
ConflictError(r) == r.status = 400 /\ r.error \in ConflictReasons
ValidationError(r) == r.status = 400 /\ r.error \notin ConflictReasons

LastEvent == activity[Len(activity)]

\* seq2 is seq1 with exactly one element appended
AppendsOne(seq1, seq2) ==
    Len(seq2) = Len(seq1) + 1 /\ SubSeq(seq2, 1, Len(seq1)) = seq1

(***************************************************************************)
(* C1.  A command that answers a failure leaves the six collections as     *)
(* they were before it.                                                    *)
(***************************************************************************)
C1_FailureChangesNothing == [][Failed(last') => UNCHANGED collections]_vars

(***************************************************************************)
(* C2.  After cancel_order succeeds on a pending order, no order of the    *)
(* collection carries the cancelled identifier (so no listOrders shows     *)
(* it), and cancelling the same identifier again is a NotFoundError.       *)
(***************************************************************************)
C2_CancelledOrderIsGone ==
    [][\A data \in CancelRequests :
        (last'.op = "cancel_order" /\ last'.status = 200 /\ last'.data = data)
        => (/\ \A g \in GrInputs : \A k \in DOMAIN orders_for(g) :
                   orders_for(g)[k].order_id # data.order_id
            /\ NotFoundError(cancel_order_run(data).response))']_vars

(***************************************************************************)
(* C3.  cancel_order on an order that is not pending is a ConflictError    *)
(* and changes neither the orders nor the activity log, in memory or in    *)
(* their files.                                                            *)
(***************************************************************************)
C3_CancelNonPendingRefused ==
    [][\A data \in CancelRequests :
        (/\ last'.op = "cancel_order" /\ last'.data = data
         /\ Has(data, "order_id")
         /\ \E k \in DOMAIN orders : orders[k].order_id = data.order_id
         /\ LET k == Min({j \in DOMAIN orders : orders[j].order_id = data.order_id})
            IN orders[k].status # "pending")
        => (/\ ConflictError(last')
            /\ orders' = orders /\ file_orders' = file_orders
            /\ activity' = activity /\ file_activity' = file_activity)]_vars

C3_Witness ==
    /\ last.op = "cancel_order"
    /\ last.error = "Only pending orders can be cancelled"
    /\ \E k \in DOMAIN orders :
          orders[k].order_id = last.data.order_id /\ orders[k].status = "committed"

(***************************************************************************)
(* C4.  After generate_order succeeds, the payments of the same account    *)
(* hold an entry for the new order that is pending and whose amount is the *)
(* sum over the submitted recipes of unit price times box size, a recipe   *)
(* outside the price table counting as zero.                               *)
(***************************************************************************)
C4_UnitPrice(recipe) ==
    IF recipe.id \in DOMAIN recipe_prices THEN recipe_prices[recipe.id] ELSE 0

RECURSIVE C4_Sum(_, _)
C4_Sum(recipes, n) ==
    IF n = 0 THEN 0 ELSE C4_UnitPrice(recipes[n]) + C4_Sum(recipes, n - 1)

C4_GeneratedOrderIsPayable ==
    (last.op = "generate_order" /\ last.status = 200)
    => LET data == last.data
           payments == generate_payments_for_gr(data.gr)
       IN /\ Has(payments, "log")
          /\ \E k \in DOMAIN payments.log :
                /\ payments.log[k].order_id = last.body.order.order_id
                /\ payments.log[k].status = "pending"
                /\ payments.log[k].amount =
                      data.box_size.int * C4_Sum(data.recipes, Len(data.recipes))

C4_Witness ==
    /\ last.op = "generate_order" /\ last.status = 200
    /\ \E k \in DOMAIN last.data.recipes :
          last.data.recipes[k].id \notin DOMAIN recipe_prices
    /\ Has(generate_payments_for_gr(last.data.gr), "log")
    /\ Len(generate_payments_for_gr(last.data.gr).log) >= 2

(***************************************************************************)
(* C5.  A successful create_complaint appends exactly one complaint, which *)
(* is resolved and carries the submitted account, order and recipe, and    *)
(* exactly one activity-event, of category complaint_created; no other     *)
(* collection changes.                                                     *)
(***************************************************************************)
C5_CreateAppendsOne ==
    [][(last'.op = "create_complaint" /\ last'.status = 200)
        => (/\ AppendsOne(complaints, complaints')
            /\ LET c == complaints'[Len(complaints')] IN
                  /\ c.status = "resolved"
                  /\ c.gr = last'.data.gr
                  /\ c.order_id = last'.data.order_id
                  /\ c.recipe = last'.data.recipe
            /\ AppendsOne(activity, activity')
            /\ activity'[Len(activity')].category = "complaint_created"
            /\ UNCHANGED <<customers, orders, messages, subscriptions>>)]_vars

C5_Witness ==
    /\ last.op = "create_complaint" /\ last.status = 200
    /\ Len(complaints) = 2
    /\ complaints[2].status = "resolved"
    /\ LastEvent.category = "complaint_created"

(***************************************************************************)
(* C6.  create_complaint fails, and changes neither the complaints nor the *)
(* activity log, when no committed order of the account carries the order  *)
(* id and lists the recipe: the order is missing, is another account's, is *)
(* not committed, or lacks the recipe.  For an otherwise valid request     *)
(* against an order that is not committed the failure is a ConflictError.  *)
(***************************************************************************)
C6_Eligible(data) ==
    \E k \in DOMAIN orders :
        /\ orders[k].order_id = data.order_id
        /\ GR(orders[k].gr) = GR(data.gr)
        /\ orders[k].status = "committed"
        /\ \E j \in DOMAIN orders[k].recipes : orders[k].recipes[j].name = data.recipe

C6_NotCommitted(data) ==
    \E k \in DOMAIN orders :
        /\ orders[k].order_id = data.order_id
        /\ GR(orders[k].gr) = GR(data.gr)
        /\ orders[k].status # "committed"

C6_ValidFields(data) ==
    /\ \A f \in {"gr", "order_id", "recipe", "description", "compensation_type",
                 "compensation_amount"} : Has(data, f)
    /\ data.compensation_type \in {"credit", "refund"}
    /\ Has(data.compensation_amount, "int") /\ data.compensation_amount.int > 0

C6_IneligibleOrderRefused ==
    [][\A data \in ComplaintRequests :
        (last'.op = "create_complaint" /\ last'.data = data /\ ~C6_Eligible(data))
        => (/\ Failed(last')
            /\ (C6_ValidFields(data) /\ C6_NotCommitted(data) => ConflictError(last'))
            /\ complaints' = complaints /\ file_complaints' = file_complaints
            /\ activity' = activity /\ file_activity' = file_activity)]_vars

C6_Witness ==
    /\ last.op = "create_complaint"
    /\ last.error = "Can only create complaints for committed orders"
    /\ C6_NotCommitted(last.data)


(***************************************************************************)
(* C7.  update_personal is idempotent on its own output: after a           *)
(* successful update, submitting the same input again, or submitting the   *)
(* values the customer now holds, succeeds, leaves the customers as they   *)
(* are and appends no activity-event.                                      *)
(***************************************************************************)
C7_Silent(run) ==
    /\ run.response.status = 200
    /\ run.customers = customers
    /\ run.events = <<>>

C7_Stored(customer) ==
    [f \in {"gr"} \cup {PersonalFields[k] : k \in DOMAIN PersonalFields} |->
        customer[f]]

C7_UpdatePersonalIdempotent ==
    (last.op = "update_personal" /\ last.status = 200)
    => /\ C7_Silent(update_personal_run(last.data))
       /\ C7_Silent(update_personal_run(C7_Stored(last.body.customer)))

\* the first half alone: the same input a second time
C7_SameInputAgain ==
    (last.op = "update_personal" /\ last.status = 200)
    => C7_Silent(update_personal_run(last.data))

(***************************************************************************)
(* C8.  An update_complaint that leaves the description, compensation      *)
(* type, compensation amount and status of every complaint as they were    *)
(* appends no activity-event.                                              *)
(***************************************************************************)
C8_SameFields(old, new) ==
    /\ old.issue = new.issue
    /\ old.compensation_type = new.compensation_type
    /\ old.compensation = new.compensation
    /\ old.status = new.status

C8_NoOpUpdateIsSilent ==
    [][(/\ last'.op = "update_complaint"
        /\ Len(complaints') = Len(complaints)
        /\ \A k \in DOMAIN complaints : C8_SameFields(complaints[k], complaints'[k]))
        => activity' = activity]_vars

(***************************************************************************)
(* C9.  A successful update_subscription appends exactly one activity-     *)
(* event when status, frequency, recipes, box_size or delivery_day of the  *)
(* subscription differ before and after, and none otherwise; the event's   *)
(* change list and its old/new map have one entry per differing field,     *)
(* and the map holds the field's values before and after.                  *)
(***************************************************************************)
C9_Differing(old, new) == {f \in DOMAIN SubLabels : old[f] # new[f]}

C9_EventMatches(e, old, new) ==
    LET D == C9_Differing(old, new) IN
    /\ e.category = "subscription_update"
    /\ Len(e.changes) = Cardinality(D)
    /\ {e.changes[k][1] : k \in DOMAIN e.changes} = {SubLabels[f] : f \in D}
    /\ DOMAIN e.details = D
    /\ \A f \in D : e.details[f] = [old |-> old[f], new |-> new[f]]

C9_OneEventPerChangedUpdate ==
    [][(last'.op = "update_subscription" /\ last'.status = 200)
        => LET i == first_match(subscriptions,
                                LAMBDA sub : GR(sub.gr) = GR(last'.data.gr))
               old == subscriptions[i]
               new == subscriptions'[i]
           IN /\ \A k \in DOMAIN subscriptions :
                     k # i => subscriptions'[k] = subscriptions[k]
              /\ IF C9_Differing(old, new) = {}
                 THEN activity' = activity
                 ELSE /\ AppendsOne(activity, activity')
                      /\ C9_EventMatches(activity'[Len(activity')], old, new)]_vars

C9_Witness ==
    /\ last.op = "update_subscription" /\ last.status = 200
    /\ activity # <<>>
    /\ LastEvent.category = "subscription_update"
    /\ LastEvent.time = now
    /\ Len(LastEvent.changes) >= 2

(***************************************************************************)
(* C10.  clear_activity_log answers, as its cleared count, the number of   *)
(* activity-events the account had before the command, and the activity    *)
(* listing of that account is empty directly after it.                     *)
(***************************************************************************)
C10_EventsOf(gr) == SelectSeq(activity, LAMBDA e : GR(e.gr) = GR(gr))

C10_ClearCountsAndEmpties ==
    [][\A data \in ClearRequests :
        (last'.op = "clear_activity_log" /\ last'.status = 200 /\ last'.data = data)
        => /\ last'.body.cleared_count = Len(C10_EventsOf(data.gr))
           /\ (activity_page(data.gr, "", "") = <<>>)']_vars

C10_Witness ==
    /\ last.op = "clear_activity_log" /\ last.status = 200
    /\ last.body.cleared_count >= 2
    /\ activity # <<>>

(***************************************************************************)
(* The read-only pages (app.py:116-139, 177-189, 338-350, 451-460,         *)
(* 636-648, 707-725, 979-993): what each hands to its template for the     *)
(* account named in the query string.                                      *)
(***************************************************************************)
NoRecord == [none |-> TRUE]

\* customers_by_gr.get(GR(gr)), subscriptions_by_gr.get(GR(gr))
customer_of(gr) ==
    IF GR(gr) \in DOMAIN customers_by_gr
    THEN customers[customers_by_gr[GR(gr)]] ELSE NoRecord

subscription_of(gr) ==
    IF GR(gr) \in DOMAIN subscriptions_by_gr
    THEN subscriptions[subscriptions_by_gr[GR(gr)]] ELSE NoRecord

get_customer_info(gr) ==
    LET cust == customer_of(gr)
        sub == subscription_of(gr)
    IN IF cust = NoRecord THEN NoRecord
       ELSE [name |-> cust.first_name \o <<" ">> \o cust.last_name,
             gr |-> cust.gr,
             postcode |-> cust.postcode,
             subscription_status |->
                 IF sub # NoRecord THEN sub.status ELSE "Unknown"]

\* messages_by_gr.get(normalized_gr, {"log": []})
messages_of(gr) ==
    IF GR(gr) \in DOMAIN messages_by_gr
    THEN messages[messages_by_gr[GR(gr)]] ELSE [log |-> <<>>]

\* payments_page hands generate_payments_for_gr the identifier as it came
payments_page(gr) == IF gr # <<>> THEN generate_payments_for_gr(gr) ELSE NoPayments

(***************************************************************************)
(* C11.  Two account identifiers that differ only in letter case or in     *)
(* surrounding white space get the same answer from every query: customer  *)
(* summary, orders, complaints, activity, subscription, messages, and      *)
(* payments, the payment method label included.                            *)
(***************************************************************************)
C11_SameAccount(g1, g2) == g1 # <<>> /\ g2 # <<>> /\ GR(g1) = GR(g2)

\* the payments an account is shown: the method label and the log
C11_Payments(gr) ==
    LET payments == payments_page(gr) IN
    IF payments = NoPayments THEN NoPayments
    ELSE [method |-> payments.method, log |-> payments.log]

C11_OtherQueriesAgree ==
    \A g1 \in GrInputs : \A g2 \in GrInputs :
        C11_SameAccount(g1, g2)
        => /\ get_customer_info(g1) = get_customer_info(g2)
           /\ orders_for(g1) = orders_for(g2)
           /\ complaints_for(g1) = complaints_for(g2)
           /\ activity_page(g1, "", "") = activity_page(g2, "", "")
           /\ subscription_of(g1) = subscription_of(g2)
           /\ messages_of(g1) = messages_of(g2)

\* the commands keyed by the account act on the same record
C11_CommandsAgree ==
    \A g1 \in GrInputs : \A g2 \in GrInputs :
        C11_SameAccount(g1, g2)
        => /\ \A data \in {d \in SubscriptionRequests : Has(d, "gr")} :
                 update_subscription_run([data EXCEPT !.gr = g1]).subscriptions
                 = update_subscription_run([data EXCEPT !.gr = g2]).subscriptions
           /\ update_personal_run([MaryAnn EXCEPT !.gr = g1]).customers
              = update_personal_run([MaryAnn EXCEPT !.gr = g2]).customers
           /\ clear_activity_log_run([gr |-> g1]).activity
              = clear_activity_log_run([gr |-> g2]).activity
           /\ \A data \in {d \in DeleteComplaintRequests : Has(d, "complaint_id")} :
                 delete_complaint_run([data EXCEPT !.gr = g1]).complaints
                 = delete_complaint_run([data EXCEPT !.gr = g2]).complaints

C11_SameAccountSameAnswer ==
    /\ C11_OtherQueriesAgree
    /\ C11_CommandsAgree
    /\ \A g1 \in GrInputs : \A g2 \in GrInputs :
          C11_SameAccount(g1, g2) => C11_Payments(g1) = C11_Payments(g2)

(***************************************************************************)
(* Orders through the day: generate_order with the clock, for an account   *)
(* without a customer, for delivery dates two, three and four days ahead,  *)
(* and for box sizes and recipe lists in and out of range.                 *)
(***************************************************************************)
\* the day of StartTick, and a date so many days after it
Today == DayOf(StartTick)

TwoDigits(n) == <<CHOOSE c \in Digits : DigitTable[c] = n \div 10,
                  CHOOSE c \in Digits : DigitTable[c] = n % 10>>

DaysAhead(n) == Date(TwoDigits(Today + n))

OrderC == [gr |-> GR002, delivery_date |-> DaysAhead(4), box_size |-> IntV(5),
           recipes |-> <<BeefTacos, ChefSpecial>>]

DayRequests ==
    {[OrderC EXCEPT !.delivery_date = DaysAhead(3)],
     [OrderC EXCEPT !.delivery_date = DaysAhead(2)],
     [OrderC EXCEPT !.gr = GR999],
     [OrderC EXCEPT !.box_size = BoolV(TRUE)],
     [OrderC EXCEPT !.box_size = IntV(6)],
     [OrderC EXCEPT !.box_size = IntV(0)],
     Without([OrderC EXCEPT !.box_size = IntV(6)], "delivery_date"),
     [OrderC EXCEPT !.recipes = <<BeefTacos>>],
     [OrderC EXCEPT !.recipes = <<BeefTacos, ChefSpecial, BeefTacos, ChefSpecial,
                                  BeefTacos, ChefSpecial>>]}

GenerateOrderInDay ==
    \E data \in DayRequests : \E token \in Tokens : generate_order(data, token)

NextDay == GenerateOrderInDay \/ ClearOrdersLog \/ Tick

SpecDay == Init /\ [][NextDay]_vars

(***************************************************************************)
(* C12.  generate_order for an account that no customer record matches is  *)
(* a NotFoundError and appends no order and no activity-event; so every    *)
(* order of the collection belongs to an existing customer.                *)
(***************************************************************************)
C12_HasCustomer(order) == customer_of(order.gr) # NoRecord

C12_OrdersHaveCustomers ==
    [][(last'.op = "generate_order" /\ ~Blank(last'.data, "gr"))
        => /\ customer_of(last'.data.gr) = NoRecord
                => /\ NotFoundError(last')
                   /\ orders' = orders
                   /\ activity' = activity
           /\ \A k \in DOMAIN orders' : C12_HasCustomer(orders'[k])]_vars

(***************************************************************************)
(* C13.  generate_order accepts a delivery date exactly when it is at      *)
(* least three days after today's date: a date of today + 3 passes the     *)
(* date check at every time of day, and an earlier date is refused with    *)
(* no order created.                                                       *)
(***************************************************************************)
C13_DateRefused(r) ==
    r.status = 400 /\ r.error = "Delivery date must be at least 3 days from today"

C13_AcceptedFromThreeDaysAhead ==
    [][\A data \in DayRequests :
        (last'.op = "generate_order" /\ last'.data = data
         /\ Has(data, "delivery_date"))
        => LET delivery == strptime_day(data.delivery_date) IN
           /\ delivery.ok
           /\ IF delivery.day >= DayOf(now) + 3
              THEN ~C13_DateRefused(last')
              ELSE C13_DateRefused(last') /\ orders' = orders]_vars

(***************************************************************************)
(* C14.  Every order that generate_order appends is pending, with a box    *)
(* size in 1..5 and two to five recipe line items; a request whose box     *)
(* size is outside 1..5 or whose recipe count is outside 2..5 is a         *)
(* ValidationError and leaves the orders and the activity log unchanged.   *)
(***************************************************************************)
\* a box size in 1..5: a number of that range
C14_BoxInRange(data) ==
    Has(data, "box_size") /\ Has(data.box_size, "int") /\ data.box_size.int \in 1..5

C14_RecipesInRange(data) ==
    Has(data, "recipes") /\ Len(data.recipes) \in 2..5

C14_AppendedOrdersInRange ==
    [][last'.op = "generate_order"
        => /\ last'.status = 200
                => /\ AppendsOne(orders, orders')
                   /\ LET order == orders'[Len(orders')] IN
                         /\ order.status = "pending"
                         /\ C14_BoxInRange(order)
                         /\ C14_RecipesInRange(order)
           /\ (~C14_BoxInRange(last'.data) \/ ~C14_RecipesInRange(last'.data))
                => /\ ValidationError(last')
                   /\ orders' = orders
                   /\ activity' = activity]_vars

\* the same, for the requests that carry a delivery date and whose box size
\* is a JSON number
C14_NumbersInRange ==
    [][(/\ last'.op = "generate_order"
        /\ Has(last'.data, "delivery_date")
        /\ Has(last'.data, "box_size") => Has(last'.data.box_size, "int"))
        => /\ last'.status = 200
                => /\ AppendsOne(orders, orders')
                   /\ LET order == orders'[Len(orders')] IN
                         /\ order.status = "pending"
                         /\ C14_BoxInRange(order)
                         /\ C14_RecipesInRange(order)
           /\ (~C14_BoxInRange(last'.data) \/ ~C14_RecipesInRange(last'.data))
                => /\ ValidationError(last')
                   /\ orders' = orders
                   /\ activity' = activity]_vars

(***************************************************************************)
(* C15.  The order identifiers of the orders are pairwise distinct, and    *)
(* so are the complaint identifiers of the complaints: generate_order and  *)
(* create_complaint never append an identifier that is already present.    *)
(***************************************************************************)
C15_IdentifiersDistinct ==
    /\ \A i \in DOMAIN orders : \A j \in DOMAIN orders :
          i # j => orders[i].order_id # orders[j].order_id
    /\ \A i \in DOMAIN complaints : \A j \in DOMAIN complaints :
          i # j => complaints[i].complaint_id # complaints[j].complaint_id

(***************************************************************************)
(* The whole store: every command, each with a few requests.  The log is   *)
(* not cleared here, so a run holds as many logged commands as MaxActivity *)
(* allows, and any number of refused ones.                                 *)
(***************************************************************************)
SomeOrders ==
    \E data \in {OrderA, OrderB} : \E token \in Tokens : generate_order(data, token)

SomeCancels ==
    \E data \in {[order_id |-> OrderId(0, 1)], [order_id |-> OrderId(0, 2)],
                 [order_id |-> OrderId(Today, 1)]} : cancel_order(data)

SomeComplaints ==
    \E data \in {ComplaintA, [ComplaintA EXCEPT !.gr = GR002]} :
        \E token \in Tokens : create_complaint(data, token)

SomeComplaintUpdates ==
    \E data \in {[complaint_id |-> ComplaintId(0, 1), gr |-> gr001_padded,
                  description |-> "stale", status |-> "open"],
                 [complaint_id |-> ComplaintId(0, 1), gr |-> GR002]} :
        update_complaint(data)

SomeComplaintDeletes ==
    \E data \in {[complaint_id |-> ComplaintId(0, 1), gr |-> GR001],
                 [complaint_id |-> ComplaintId(Today, 1), gr |-> GR001]} :
        delete_complaint(data)

SomeSubscriptions ==
    \E data \in {[gr |-> gr001_padded, status |-> "paused"],
                 [gr |-> GR001, status |-> "paused", frequency |-> "biweekly",
                  recipes |-> StrV(<<"l","o","t","s">>)]} :
        update_subscription(data)

SomePersonal ==
    \E data \in {MaryAnn, [MaryAnn EXCEPT !.gr = GR999]} : update_personal(data)

NextStore ==
    \/ SomeOrders \/ SomeCancels
    \/ SomeComplaints \/ SomeComplaintUpdates \/ SomeComplaintDeletes
    \/ SomeSubscriptions \/ SomePersonal

SpecStore == Init /\ [][NextStore]_vars

(***************************************************************************)
(* C16.  No command changes a field of an order that is in the             *)
(* collection: a step leaves the orders as they are, or generate_order     *)
(* appends one order, or cancel_order removes one pending order.           *)
(***************************************************************************)
C16_RemovesOnePending ==
    \E i \in DOMAIN orders :
        /\ orders[i].status = "pending"
        /\ orders' = SubSeq(orders, 1, i - 1) \o SubSeq(orders, i + 1, Len(orders))

C16_OrdersOnlyAppendedOrCancelled ==
    [][\/ orders' = orders
       \/ /\ last'.op = "generate_order" /\ last'.status = 200
          /\ AppendsOne(orders, orders')
       \/ /\ last'.op = "cancel_order" /\ last'.status = 200
          /\ C16_RemovesOnePending]_vars

\* the pending order of the seed was cancelled and the other is as it was
C16_Witness ==
    /\ last.op = "cancel_order" /\ last.status = 200
    /\ orders = <<SeedOrders[1]>>

(***************************************************************************)
(* C17.  Every complaint has a compensation type of credit or refund and   *)
(* a compensation amount that is not negative, whatever create_complaint   *)
(* and update_complaint commands were run.                                 *)
(***************************************************************************)
C17_CompensationValid ==
    \A k \in DOMAIN complaints :
        /\ complaints[k].compensation_type \in {"credit", "refund"}
        /\ complaints[k].compensation >= 0

(***************************************************************************)
(* C18.  A successful update_complaint changes, in the complaint it        *)
(* targets, only those of issue, compensation_type, compensation and       *)
(* status that the request carries, and stamps modified_date and           *)
(* modified_by; the complaint's identifier, account, order, recipe and     *)
(* creation date, and every other complaint, stay as they were.            *)
(***************************************************************************)
C18_Fixed == {"complaint_id", "gr", "order_id", "recipe", "date", "created_by"}

\* field is the request's value when the request carries key, and the old one
\* otherwise
C18_Field(data, key, old, new, field, value) ==
    new[field] = IF Has(data, key) THEN value ELSE old[field]

C18_Updated(data, old, new) ==
    /\ DOMAIN new = DOMAIN old \cup {"modified_date", "modified_by"}
    /\ \A f \in C18_Fixed : new[f] = old[f]
    /\ C18_Field(data, "description", old, new, "issue", Get(data, "description", ""))
    /\ C18_Field(data, "compensation_type", old, new, "compensation_type",
                 Get(data, "compensation_type", ""))
    /\ C18_Field(data, "compensation_amount", old, new, "compensation",
                 py_float(Get(data, "compensation_amount", IntV(0))).v)
    /\ C18_Field(data, "status", old, new, "status", Get(data, "status", ""))
    /\ new.modified_date = now
    /\ new.modified_by = "admin"

C19_Matching(data) ==
    {k \in DOMAIN complaints : /\ complaints[k].complaint_id = data.complaint_id
                               /\ GR(complaints[k].gr) = GR(data.gr)}

C19_Deletes(data) ==
    IF C19_Matching(data) = {}
    THEN /\ NotFoundError(last')
         /\ complaints' = complaints
         /\ activity' = activity
    ELSE /\ last'.status = 200
         /\ \E i \in C19_Matching(data) :
               complaints' = SubSeq(complaints, 1, i - 1)
                             \o SubSeq(complaints, i + 1, Len(complaints))
         \* a repeat finds nothing
         /\ NotFoundError(delete_complaint_run(data).response)'

C19_DeleteRemovesTheOne ==
    [][\A data \in DeleteComplaintRequests :
        (last'.op = "delete_complaint" /\ last'.data = data
         /\ Has(data, "complaint_id"))
        => C19_Deletes(data)]_vars

\* the same, from the states whose identifiers are pairwise distinct
C19_DeleteWhenDistinct ==
    [][\A data \in DeleteComplaintRequests :
        (last'.op = "delete_complaint" /\ last'.data = data
         /\ Has(data, "complaint_id") /\ C15_IdentifiersDistinct)
        => C19_Deletes(data)]_vars

(***************************************************************************)
(* C20.  update_personal is a ValidationError, and leaves the customers,   *)
(* their index and the activity log unchanged, when a required field is    *)
(* missing or blank, the email has no "@", the phone does not reduce to    *)
(* exactly 11 digits, or the postcode does not normalise to 5, 6 or 7      *)
(* alphanumeric characters; on success the stored phone is 5 digits, a     *)
(* space and 6 digits, and the stored postcode is upper-case with one      *)
(* space, before its last three characters.                                *)
(***************************************************************************)
C20_Alphanumeric(s) == \A k \in DOMAIN s : IsAlpha(s[k]) \/ IsDigit(s[k])

C20_Invalid(data) ==
    \/ \E k \in DOMAIN PersonalRequired :
          LET f == PersonalRequired[k] IN
          ~Has(data, f) \/ py_strip(data[f]) = <<>>
    \/ \A k \in DOMAIN data.email : data.email[k] # "@"
    \/ Len(SelectSeq(data.phone, IsDigit)) # 11
    \/ LET postcode == remove_spaces(py_upper(py_strip(data.postcode))) IN
       ~(Len(postcode) \in {5, 6, 7} /\ C20_Alphanumeric(postcode))

C20_PhoneForm(phone) ==
    /\ Len(phone) = 12
    /\ phone[6] = " "
    /\ \A k \in (1..5) \cup (7..12) : IsDigit(phone[k])

C20_PostcodeForm(postcode) ==
    /\ py_upper(postcode) = postcode
    /\ Len(postcode) >= 4
    /\ {k \in DOMAIN postcode : postcode[k] = " "} = {Len(postcode) - 3}

C20_PersonalValidated ==
    [][\A data \in PersonalRequests :
        (last'.op = "update_personal" /\ last'.data = data)
        => /\ C20_Invalid(data)
                => /\ ValidationError(last')
                   /\ customers' = customers
                   /\ customers_by_gr' = customers_by_gr
                   /\ activity' = activity
           /\ last'.status = 200
                => /\ C20_PhoneForm(last'.body.customer.phone)
                   /\ C20_PostcodeForm(last'.body.customer.postcode)]_vars

\* the same, with the postcode judged by its length alone
C20_ValidatedByLength ==
    [][\A data \in PersonalRequests :
        (last'.op = "update_personal" /\ last'.data = data
         /\ (C20_Invalid(data) =>
                \/ Len(remove_spaces(py_upper(py_strip(data.postcode)))) \notin {5, 6, 7}
                \/ C20_Invalid([data EXCEPT !.postcode = <<"B","1","1","B","B">>])))
        => /\ C20_Invalid(data)
                => /\ ValidationError(last')
                   /\ customers' = customers
                   /\ customers_by_gr' = customers_by_gr
                   /\ activity' = activity
           /\ last'.status = 200
                => /\ C20_PhoneForm(last'.body.customer.phone)
                   /\ C20_PostcodeForm(last'.body.customer.postcode)]_vars

(***************************************************************************)
(* C21.  After a successful update_personal the stored first name, last    *)
(* name, address and city are title-cased word by word: every word between *)
(* white space begins with a character that is not a lower-case letter and *)
(* goes on without upper-case letters, names of several words included.    *)
(***************************************************************************)
C21_WordTitled(w) ==
    /\ ~IsLower(w[1]) /\ w[1] # NApostrophe
    /\ \A k \in 2..Len(w) : ~IsUpper(w[k])

C21_TitleCased(s) ==
    LET words == py_split(s) IN \A k \in DOMAIN words : C21_WordTitled(words[k])

C21_TitledFields == {"first_name", "last_name", "address", "city"}

C21_StoredTitleCased ==
    (last.op = "update_personal" /\ last.status = 200)
    => \A f \in C21_TitledFields : C21_TitleCased(last.body.customer[f])

\* the same of the address and the city alone
C21_AddressAndCityTitleCased ==
    (last.op = "update_personal" /\ last.status = 200)
    => \A f \in {"address", "city"} : C21_TitleCased(last.body.customer[f])

(***************************************************************************)
(* C22.  update_subscription leaves each of status, frequency, recipes,    *)
(* box_size and delivery_day that the request does not carry at the value  *)
(* it had, in the subscription of the account, and leaves every other      *)
(* subscription as it was.                                                 *)
(***************************************************************************)
C22_Targets(data, sub) == Has(data, "gr") /\ GR(sub.gr) = GR(data.gr)

C22_AbsentFieldsKept ==
    [][\A data \in SubscriptionRequests :
        (last'.op = "update_subscription" /\ last'.data = data)
        => /\ Len(subscriptions') = Len(subscriptions)
           /\ \A k \in DOMAIN subscriptions :
                 IF C22_Targets(data, subscriptions[k])
                 THEN /\ DOMAIN subscriptions'[k] = DOMAIN subscriptions[k]
                      /\ subscriptions'[k].gr = subscriptions[k].gr
                      /\ \A i \in DOMAIN SubFields :
                            ~Has(data, SubFields[i])
                            => subscriptions'[k][SubFields[i]]
                               = subscriptions[k][SubFields[i]]
                 ELSE subscriptions'[k] = subscriptions[k]]_vars

\* an update of GR002 that carried the recipes alone among the fields that
\* were written: its status, frequency and delivery day are the seed's
C22_Witness ==
    /\ last.op = "update_subscription"
    /\ Has(last.data, "recipes") /\ ~Has(last.data, "status")
    /\ GR(last.data.gr) = GR002
    /\ subscriptions[2].recipes = 3
    /\ subscriptions[2].status = "paused"
    /\ subscriptions[2].delivery_day = "Friday"

(***************************************************************************)
(* C23.  In every state the customers carry the account identifiers of the *)
(* seed, record by record, and so do the subscriptions: no command adds or *)
(* removes a customer or a subscription; and the message threads are those *)
(* of the seed.                                                            *)
(***************************************************************************)
C23_Accounts(coll) == [k \in DOMAIN coll |-> coll[k].gr]

C23_SeedAccountsKept ==
    /\ C23_Accounts(customers) = C23_Accounts(SeedCustomers)
    /\ C23_Accounts(subscriptions) = C23_Accounts(SeedSubscriptions)
    /\ messages = SeedMessages

\* a customer and a subscription were both written
C23_Witness ==
    /\ last.op = "update_personal" /\ last.status = 200
    /\ customers[1] # SeedCustomers[1]
    /\ subscriptions[1] # SeedSubscriptions[1]

(***************************************************************************)
(* C24.  In every state each index agrees with its collection: the keys of *)
(* the customer index are the normalised account identifiers of the        *)
(* customers, each key leads to the customer of that identifier, and a     *)
(* lookup through the index answers that customer's record, field by       *)
(* field; the same of the subscription index and the subscriptions.        *)
(***************************************************************************)
C24_Agrees(idx, coll) ==
    /\ DOMAIN idx = {GR(coll[k].gr) : k \in DOMAIN coll}
    /\ \A g \in DOMAIN idx :
          /\ idx[g] \in DOMAIN coll
          /\ \A k \in DOMAIN coll : GR(coll[k].gr) = g <=> k = idx[g]

C24_IndicesAgree ==
    /\ C24_Agrees(customers_by_gr, customers)
    /\ C24_Agrees(subscriptions_by_gr, subscriptions)
    /\ \A k \in DOMAIN customers : customer_of(customers[k].gr) = customers[k]
    /\ \A k \in DOMAIN subscriptions :
          subscription_of(subscriptions[k].gr) = subscriptions[k]

\* the first customer and the first subscription were written, and the
\* lookups answer what was written
C24_Witness ==
    /\ subscriptions[1] # SeedSubscriptions[1]
    /\ subscription_of(gr001_padded) = subscriptions[1]
    /\ last.op = "update_personal" /\ last.status = 200
    /\ GR(last.data.gr) = GR001
    /\ customer_of(GR001) = last.body.customer
    /\ customer_of(GR001) # SeedCustomers[1]

(***************************************************************************)
(* C25.  After every command, whether it succeeded or failed, the file of  *)
(* each collection holds what the collection holds in memory.              *)
(***************************************************************************)
C25_FilesAgree ==
    /\ file_customers = customers
    /\ file_orders = orders
    /\ file_complaints = complaints
    /\ file_subscriptions = subscriptions
    /\ file_activity = activity

C25_FilesHoldCollections == C25_FilesAgree

\* the same of the commands that succeed: from files that agree, a command
\* that answers 200 leaves files that agree
C25_SuccessKeepsFiles ==
    [][(C25_FilesAgree /\ last'.status = 200) => C25_FilesAgree']_vars

(***************************************************************************)
(* C26.  The payments of an account reflect the orders as they are now:    *)
(* the view is absent exactly when the account has no order; otherwise its *)
(* log has one entry per order of the account, with that order's           *)
(* identifier and stored payment, paid for a committed order and pending   *)
(* for any other; and a successful cancel_order takes the entry of the     *)
(* order it removed out of the log.                                        *)
(***************************************************************************)
C26_Held(gr) ==
    {k \in DOMAIN orders : py_upper(py_strip(orders[k].gr)) = py_upper(py_strip(gr))}

\* what the entry of an order must say
C26_Expected(order) ==
    [order_id |-> order.order_id, amount |-> order.payment,
     status |-> IF order.status = "committed" THEN "paid" ELSE "pending"]

C26_Shown(entry) ==
    [order_id |-> entry.order_id, amount |-> entry.amount, status |-> entry.status]

\* the log holds x as often as the account's orders call for it
C26_SameCount(gr, log, x) ==
    Cardinality({k \in DOMAIN log : C26_Shown(log[k]) = x})
    = Cardinality({k \in C26_Held(gr) : C26_Expected(orders[k]) = x})

C26_Reflects(gr) ==
    LET payments == payments_page(gr) IN
    IF C26_Held(gr) = {} THEN payments = NoPayments
    ELSE /\ payments # NoPayments
         /\ Len(payments.log) = Cardinality(C26_Held(gr))
         /\ \A k \in DOMAIN payments.log :
               C26_SameCount(gr, payments.log, C26_Shown(payments.log[k]))

\* the orders but for the one at i
C26_Less(i) == SubSeq(orders, 1, i - 1) \o SubSeq(orders, i + 1, Len(orders))

\* the log is recomputed from the orders of the state; a successful cancel
\* leaves the orders without the one it removed, so without its entry
C26_PaymentsReflectOrders ==
    /\ [](\A g \in GrInputs : C26_Reflects(g))
    /\ [][(last'.op = "cancel_order" /\ last'.status = 200)
           => \E i \in DOMAIN orders :
                 /\ orders[i].order_id = last'.data.order_id
                 /\ orders' = C26_Less(i)]_vars

\* the one order of GR002 was cancelled, so its payments are absent, while
\* GR001 is shown two orders
C26_Witness ==
    /\ last.op = "cancel_order" /\ last.status = 200
    /\ payments_page(GR002) = NoPayments
    /\ payments_page(GR001) # NoPayments
    /\ Len(payments_page(GR001).log) = 2

(***************************************************************************)
(* Orders by delivery date: generate_order for dates whose day is written  *)
(* with one digit and with two (strptime reads both), and cancel_order.    *)
(***************************************************************************)
DatedRequests ==
    {[OrderA EXCEPT !.delivery_date = Date(<<"5">>)],
     [OrderA EXCEPT !.delivery_date = Date(<<"1","0">>)],
     OrderB,
     [OrderB EXCEPT !.delivery_date = Date(<<"1","1","t","h">>)]}

GenerateDated ==
    \E data \in DatedRequests : \E token \in Tokens : generate_order(data, token)

NextDates == GenerateDated \/ CancelOrder \/ ClearOrdersLog

SpecDates == Init /\ [][NextDates]_vars

(***************************************************************************)
(* C27.  The log of the payments of an account is in descending order of   *)
(* date: of two consecutive entries, the first is dated on the day of the  *)
(* second or later, whatever orders were generated and cancelled.          *)
(***************************************************************************)
\* the calendar day an order date YYYY-MM-D[D]T12:00:00Z names, as a count of
\* days that grows with the date
C27_Day(text) ==
    LET date == SubSeq(text, 1, Len(text) - Len(T1200Z)) IN
    (digits_value(SubSeq(date, 1, 4)) * 12 + digits_value(SubSeq(date, 6, 7))) * 31
    + digits_value(SubSeq(date, 9, Len(date)))

C27_Sorted(log, later_or_same(_, _)) ==
    \A k \in 1..(Len(log) - 1) : later_or_same(log[k].date, log[k + 1].date)

C27_LogOf(gr) ==
    LET payments == payments_page(gr) IN
    IF payments = NoPayments THEN <<>> ELSE payments.log

C27_LogSortedByDate ==
    \A g \in GrInputs :
        C27_Sorted(C27_LogOf(g), LAMBDA a, b : C27_Day(a) >= C27_Day(b))

\* the same of the dates as texts: no entry's text is less than the next one's
C27_LogSortedAsText ==
    \A g \in GrInputs : C27_Sorted(C27_LogOf(g), LAMBDA a, b : ~str_lt(a, b))

(***************************************************************************)
(* C28.  The activity listing of an account holds exactly the events of    *)
(* the log whose normalised account identifier is the normalised one of    *)
(* the query, and that have the category and the actor asked for when a    *)
(* filter is given, each as often as the log holds it; and it runs from    *)
(* the most recent to the oldest: the times never increase along it.       *)
(***************************************************************************)
C28_Categories == {"", "login", "subscription_update"}
C28_Actors == {"", "admin", "customer"}

C28_Asked(e, gr, category, actor) ==
    /\ py_upper(py_strip(e.gr)) = py_upper(py_strip(gr))
    /\ category # "" => e.category = category
    /\ actor # "" => e.actor = actor

C28_Count(seq, x) == Cardinality({k \in DOMAIN seq : seq[k] = x})

C28_Listing(gr, category, actor) ==
    LET listed == activity_page(gr, category, actor)
        asked == SelectSeq(activity, LAMBDA e : C28_Asked(e, gr, category, actor))
    IN /\ Len(listed) = Len(asked)
       /\ \A k \in DOMAIN asked : C28_Count(listed, asked[k]) = C28_Count(asked, asked[k])
       /\ \A k \in 1..(Len(listed) - 1) : listed[k].time >= listed[k + 1].time

C28_ActivityListedNewestFirst ==
    \A g \in GrInputs : \A category \in C28_Categories : \A actor \in C28_Actors :
        C28_Listing(g, category, actor)

\* GR001 has its login of the seed and a later subscription update, listed
\* before it; each filter leaves one of the two
C28_Witness ==
    /\ Len(activity) >= 3
    /\ Len(activity_page(gr001_padded, "", "")) = 2
    /\ activity_page(gr001_padded, "", "")[1].time > activity_page(GR001, "", "")[2].time
    /\ activity_page(GR001, "", "")[2] = activity[1]
    /\ Len(activity_page(GR001, "login", "")) = 1
    /\ Len(activity_page(GR001, "", "admin")) = 1

(***************************************************************************)
(* C29.  But for clear_activity_log, the activity log only grows at its    *)
(* end: every other command leaves the events that were there as they      *)
(* were and in their order, and appends one event or none; an appended     *)
(* event carries the account of the record the command acted on, and       *)
(* "admin", the one operator, as its actor.                                *)
(***************************************************************************)
\* seq without its element at i
C29_Less(seq, i) == SubSeq(seq, 1, i - 1) \o SubSeq(seq, i + 1, Len(seq))

\* the account identifiers of the records the command with response r acted
\* on: the record it answered, or the one it removed
C29_ActedOn(r, orders_before, orders_after, complaints_before, complaints_after) ==
    CASE r.op = "generate_order" -> {r.body.order.gr}
      [] r.op = "create_complaint" -> {r.body.complaint.gr}
      [] r.op = "update_complaint" -> {r.body.complaint.gr}
      [] r.op = "update_subscription" -> {r.body.updated_subscription.gr}
      [] r.op = "update_personal" -> {r.body.customer.gr}
      [] r.op = "cancel_order" ->
            {orders_before[i].gr : i \in {k \in DOMAIN orders_before :
                                            orders_after = C29_Less(orders_before, k)}}
      [] r.op = "delete_complaint" ->
            {complaints_before[i].gr : i \in {k \in DOMAIN complaints_before :
                         complaints_after = C29_Less(complaints_before, k)}}
      [] OTHER -> {}

C29_SameAccount(g1, g2) == py_upper(py_strip(g1)) = py_upper(py_strip(g2))

C29_ActivityAppendOnly ==
    [][last'.op # "clear_activity_log"
        => \/ activity' = activity
           \/ /\ AppendsOne(activity, activity')
              /\ LET e == activity'[Len(activity')] IN
                    /\ e.actor = "admin"
                    /\ \E a \in C29_ActedOn(last', orders, orders', complaints,
                                           complaints') :
                          C29_SameAccount(e.gr, a)]_vars

\* a complaint of GR001 was deleted, and the event is the log's last
C29_Witness ==
    /\ last.op = "delete_complaint" /\ last.status = 200
    /\ complaints = <<>>
    /\ Len(activity) = Len(SeedActivity) + 1
    /\ SubSeq(activity, 1, Len(SeedActivity)) = SeedActivity
    /\ LastEvent.actor = "admin"
    /\ GR(LastEvent.gr) = GR001

(***************************************************************************)
(* C30.  In every state each complaint refers to an order that is in the   *)
(* collection, is of the complaint's account, is committed and lists the   *)
(* complaint's recipe; and no command, cancel_order in particular, removes *)
(* or changes an order that a complaint refers to.                         *)
(***************************************************************************)
C30_Refers(c, order) ==
    /\ order.order_id = c.order_id
    /\ py_upper(py_strip(order.gr)) = py_upper(py_strip(c.gr))

C30_Sound(c, order) ==
    /\ C30_Refers(c, order)
    /\ order.status = "committed"
    /\ \E j \in DOMAIN order.recipes : order.recipes[j].name = c.recipe

C30_ComplaintsSound ==
    \A i \in DOMAIN complaints : \E k \in DOMAIN orders :
        C30_Sound(complaints[i], orders[k])

C30_ComplaintsKeepTheirOrders ==
    /\ []C30_ComplaintsSound
    /\ [][\A i \in DOMAIN complaints : \A k \in DOMAIN orders :
            C30_Refers(complaints[i], orders[k])
            => \E j \in DOMAIN orders' : orders'[j] = orders[k]]_vars

\* a complaint was created on the committed order of the seed, and a cancel
\* of that order was then refused
C30_Witness ==
    /\ Len(complaints) = 2
    /\ last.op = "cancel_order" /\ Failed(last)
    /\ last.data.order_id = complaints[2].order_id
    /\ \E k \in DOMAIN orders : C30_Sound(complaints[2], orders[k])

(***************************************************************************)
(* C31.  clear_activity_log for an account leaves the events of every      *)
(* other account in the log, as they were and in the order they had, and   *)
(* changes no collection but the activity log.                             *)
(***************************************************************************)
C31_OfAccount(e, gr) == py_upper(py_strip(e.gr)) = py_upper(py_strip(gr))

C31_Others(gr) == SelectSeq(activity, LAMBDA e : ~C31_OfAccount(e, gr))

C31_ClearLeavesOthers ==
    [][\A data \in ClearRequests :
        (last'.op = "clear_activity_log" /\ last'.data = data)
        => /\ UNCHANGED <<customers, orders, messages, complaints, subscriptions>>
           /\ activity' = IF last'.status = 200 THEN C31_Others(data.gr)
                          ELSE activity]_vars

\* the log of GR002 was cleared: the login of GR001 and its later
\* subscription update are left, in that order
C31_Witness ==
    /\ last.op = "clear_activity_log" /\ last.status = 200
    /\ GR(last.data.gr) = GR002
    /\ last.body.cleared_count = 1
    /\ Len(activity) = 2
    /\ activity[1] = SeedActivity[1]
    /\ activity[2].category = "subscription_update"

(***************************************************************************)
(* C32.  A successful update_personal whose request carries neither an     *)
(* address nor a city leaves the address and the city of the customer as   *)
(* they were, and the event it logs names no change of either.             *)
(***************************************************************************)
C32_OmitsBoth(data) == ~Has(data, "address") /\ ~Has(data, "city")

C32_NamesNeither(changes) ==
    \A k \in DOMAIN changes : changes[k][1] \notin {"Address", "City"}

C32_OmittedAddressKept ==
    [][(last'.op = "update_personal" /\ last'.status = 200
        /\ C32_OmitsBoth(last'.data))
        => /\ \A k \in DOMAIN customers :
                 /\ customers'[k].address = customers[k].address
                 /\ customers'[k].city = customers[k].city
           /\ activity' # activity
                 => C32_NamesNeither(activity'[Len(activity')].changes)]_vars

\* what the code does instead: a request without address and city leaves the
\* customer with an empty address and an empty city
C32_OmittedAddressBlanked ==
    [][(last'.op = "update_personal" /\ last'.status = 200
        /\ C32_OmitsBoth(last'.data))
        => /\ last'.body.customer.address = <<>>
           /\ last'.body.customer.city = <<>>]_vars

=============================================================================
